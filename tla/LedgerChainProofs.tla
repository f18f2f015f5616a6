-------------------------- MODULE LedgerChainProofs --------------------------
(***************************************************************************)
(* The hash chain for files of any length: what verify_chain accepts is a  *)
(* chain the fog signed.                                                   *)
(***************************************************************************)
EXTENDS MCLedger, Integers, FiniteSetTheorems, TLAPS

Prefix(c, n) == [i \in 1..n |-> c[i]]

\* A block with the fields a block has.
Whole(b) == b = Block(Body(b), b.signature, b.block_hash)

ChainInv ==
  /\ blocks \in chains /\ file \in chains
  /\ \A c \in chains : c \in Seq({c[i] : i \in DOMAIN c})
  /\ \A c \in chains : verify_chain(c) /\ \A i \in DOMAIN c : Whole(c[i])
  /\ \A c \in chains, n \in Nat : n <= Len(c) => Prefix(c, n) \in chains
  /\ \A c, e \in chains :
       Len(c) > 0 /\ Len(e) > 0 /\ c[Len(c)] = e[Len(e)] => c = e

-----------------------------------------------------------------------------
\* Induction up to L over a set of numbers: the successor would map G into
\* itself without reaching 0, which a finite set does not allow.
LEMMA Climbing ==
  ASSUME NEW L \in Nat, NEW G \in SUBSET (0..L), 0 \in G,
         \A n \in G : n < L => n + 1 \in G
  PROVE  L \in G
<1> SUFFICES ASSUME L \notin G PROVE FALSE
  OBVIOUS
<1> DEFINE next == [n \in G |-> n + 1]
<1>1. IsFiniteSet(G)
  <2>1. 0 \in Int /\ L \in Int
    OBVIOUS
  <2>2. IsFiniteSet(0..L)
    BY <2>1, FS_Interval
  <2> QED BY <2>2, FS_Subset, Zenon
<1>2. \A n \in G : n \in 0..L /\ n + 1 \in G
  OBVIOUS
<1>3. next \in [G -> G]
  BY <1>2
<1>4. next \in Injection(G, G)
  BY <1>2, <1>3 DEF Injection, IsInjective
<1>5. next \in Surjection(G, G)
  BY <1>1, <1>4, FS_Injection
<1>6. PICK n \in G : next[n] = 0
  BY <1>5 DEF Surjection
<1> QED BY <1>2, <1>6

\* A sequence is the function it looks like.
LEMMA SequenceShape ==
  ASSUME NEW S, NEW c \in Seq(S)
  PROVE  /\ Len(c) \in Nat /\ DOMAIN c = 1..Len(c)
         /\ c = [i \in 1..Len(c) |-> c[i]]
OBVIOUS

\* Two authentic blocks with one hash, or one signature, are the same.
LEMMA HashNamesBlock ==
  ASSUME NEW a, NEW b, Whole(a), Whole(b), Authentic(a), Authentic(b),
         a.block_hash = b.block_hash \/ a.signature = b.signature
  PROVE  a = b
<1>1. Body(a) = Body(b) /\ a.signature = b.signature
  BY DEF Authentic, _block_hash
<1>2. a.block_hash = b.block_hash
  BY <1>1 DEF Authentic
<1> QED BY <1>1, <1>2 DEF Whole

\* The links of a chain determine what came before.
LEMMA OnePast ==
  ASSUME ChainInv, NEW c \in chains, NEW e \in chains, Len(c) < Len(e),
         e[Len(c) + 1].prev_hash = Link(c, Len(c))
  PROVE  Prefix(e, Len(c)) = c
<1> DEFINE n == Len(c)
<1>1. /\ n \in Nat /\ Len(e) \in Nat
      /\ DOMAIN c = 1..n /\ c = [i \in 1..n |-> c[i]]
      /\ DOMAIN e = 1..Len(e)
  <2>1. \A d \in chains : d \in Seq({d[i] : i \in DOMAIN d})
    BY DEF ChainInv
  <2>2. \A d \in chains : /\ Len(d) \in Nat /\ DOMAIN d = 1..Len(d)
                         /\ d = [i \in 1..Len(d) |-> d[i]]
    BY <2>1, SequenceShape, Zenon
  <2> QED BY <2>2
<1>2. Prefix(e, n) \in chains
  BY <1>1 DEF ChainInv
<1>3. CASE n = 0
  BY <1>1, <1>3 DEF Prefix
<1>4. CASE n > 0
  <2>1. n \in DOMAIN c /\ n \in DOMAIN e /\ n + 1 \in DOMAIN e
    BY <1>1, <1>4
  <2>2. e[n + 1].prev_hash = Link(e, n)
    <3>1. Linked(e, n + 1)
      BY <2>1 DEF ChainInv, verify_chain
    <3> QED BY <1>1, <3>1 DEF Linked
  <2>3. e[n].block_hash = c[n].block_hash
    BY <1>4, <2>2 DEF Link
  <2>4. e[n] = c[n]
    BY <2>1, <2>3, HashNamesBlock DEF ChainInv, verify_chain
  <2>5. Len(Prefix(e, n)) = n /\ Prefix(e, n)[n] = e[n]
    BY <1>1, <1>4 DEF Prefix
  <2> QED BY <1>2, <1>4, <2>4, <2>5 DEF ChainInv
<1> QED BY <1>1, <1>3, <1>4

\* A file put together from blocks that carry signatures of the fog is a chain
\* it signed, if verify_chain accepts it (registry/ledger.py: "editing any old
\* block breaks every later link").
LEMMA VerifiedIsSigned ==
  ASSUME ChainInv, NEW S, NEW f \in Seq(S), \A i \in DOMAIN f : Made(f[i]),
         verify_chain(f)
  PROVE  f \in chains
<1> DEFINE L == Len(f)
           G == {n \in 0..L : Prefix(f, n) \in chains}
<1>1. L \in Nat /\ DOMAIN f = 1..L /\ f = [i \in 1..L |-> f[i]]
  OBVIOUS
<1>2. 0 \in G
  <2>1. Prefix(f, 0) = Prefix(blocks, 0)
    BY DEF Prefix
  <2>2. Prefix(blocks, 0) \in chains
    BY DEF ChainInv
  <2> QED BY <1>1, <2>1, <2>2
<1>3. ASSUME NEW n \in G, n < L PROVE n + 1 \in G
  <2> DEFINE c == Prefix(f, n)
  <2>1. /\ n \in Nat /\ c \in chains /\ Len(c) = n /\ n + 1 \in DOMAIN f
        /\ \A i \in 1..n : c[i] = f[i]
    BY <1>1, <1>3 DEF Prefix
  <2>0. PICK e \in chains :
          \E j \in DOMAIN e : f[n + 1].signature = e[j].signature
    BY <2>1 DEF Made, SignedBlocks
  <2>2. PICK j \in DOMAIN e : f[n + 1].signature = e[j].signature
    BY <2>0
  <2>3. Whole(f[n + 1]) /\ Authentic(f[n + 1]) /\ Whole(e[j]) /\ Authentic(e[j])
    BY <2>1 DEF Made, Whole, verify_chain, ChainInv
  <2>4. f[n + 1] = e[j]
    BY <2>2, <2>3, HashNamesBlock
  <2>5. Len(e) \in Nat /\ DOMAIN e = 1..Len(e) /\ j \in Nat
    BY DEF ChainInv
  <2>6. Linked(f, n + 1) /\ Linked(e, j)
    BY <2>1 DEF verify_chain, ChainInv
  <2>7. j = n + 1
    BY <2>1, <2>4, <2>5, <2>6 DEF Linked
  <2>8. f[n + 1].prev_hash = Link(c, n)
    <3>1. f[n + 1].prev_hash = Link(f, n)
      BY <2>1, <2>6 DEF Linked
    <3>2. Link(f, n) = Link(c, n)
      BY <2>1 DEF Link
    <3> QED BY <3>1, <3>2
  <2>9. Prefix(e, n) = c
    <3>1. Len(c) < Len(e) /\ e[Len(c) + 1].prev_hash = Link(c, Len(c))
      BY <2>1, <2>4, <2>5, <2>7, <2>8
    <3> QED BY <2>1, <3>1, OnePast
  <2>10. Prefix(f, n + 1) = Prefix(e, n + 1)
    <3>1. \A i \in 1..n : f[i] = e[i]
      BY <2>1, <2>9 DEF Prefix
    <3>2. \A i \in 1..(n + 1) : f[i] = e[i]
      BY <2>1, <2>4, <2>7, <3>1
    <3> QED BY <2>1, <3>2 DEF Prefix
  <2>11. Prefix(e, n + 1) \in chains
    BY <2>1, <2>5, <2>7 DEF ChainInv
  <2> QED BY <1>1, <2>1, <2>10, <2>11
<1>4. L \in G
  <2> HIDE DEF G
  <2>1. G \in SUBSET (0..L)
    BY DEF G
  <2> QED BY <1>1, <1>2, <1>3, <2>1, Climbing
<1> QED BY <1>1, <1>4 DEF Prefix

\* The chain after one more block.
LEMMA Extended ==
  ASSUME NEW S, NEW c \in Seq(S), NEW b
  PROVE  LET d == Append(c, b)
         IN  /\ Len(d) = Len(c) + 1 /\ d[Len(d)] = b
             /\ \A i \in 1..Len(c) : d[i] = c[i]
             /\ d \in Seq({d[i] : i \in DOMAIN d})
<1> DEFINE d == Append(c, b)
           R == {d[i] : i \in DOMAIN d}
<1>1. c \in Seq(S \cup {b}) /\ b \in S \cup {b}
  OBVIOUS
<1>2. /\ d \in Seq(S \cup {b}) /\ Len(d) = Len(c) + 1
      /\ d[Len(c) + 1] = b /\ \A i \in 1..Len(c) : d[i] = c[i]
  BY <1>1
<1>3. d \in Seq(R)
  <2>1. Len(d) \in Nat /\ d = [i \in 1..Len(d) |-> d[i]] /\ DOMAIN d = 1..Len(d)
    BY <1>2, SequenceShape
  <2>2. \A i \in 1..Len(d) : d[i] \in R
    BY <2>1
  <2> HIDE DEF d, R
  <2> QED BY <2>1, <2>2
<1> QED BY <1>2, <1>3

LEMMA ChainInit == Init => ChainInv
<1> SUFFICES ASSUME Init PROVE ChainInv
  OBVIOUS
<1>1. \A n \in Nat : n <= 0 => Prefix(<<>>, n) = <<>>
  BY DEF Prefix
<1> QED BY <1>1 DEF Init, ChainInv, verify_chain

LEMMA ChainStep == ChainInv /\ [Next]_vars => ChainInv'
<1> SUFFICES ASSUME ChainInv, [Next]_vars PROVE ChainInv'
  OBVIOUS
<1>1. CASE UNCHANGED vars \/ load
  BY <1>1 DEF vars, load, ChainInv, verify_chain, Linked, Link, Authentic, Whole, Prefix
<1>2. ASSUME NEW epoch_id \in 1..MaxEpoch, NEW root \in Roots, anchor_root(epoch_id, root)
      PROVE  ChainInv'
  <2> DEFINE b == Signed(blocks, epoch_id, root)
             d == Append(blocks, b)
             n == Len(blocks)
  <2>1. blocks \in chains /\ blocks \in Seq({blocks[i] : i \in DOMAIN blocks})
    BY DEF ChainInv
  <2>2. /\ n \in Nat /\ DOMAIN blocks = 1..n /\ blocks = [i \in 1..n |-> blocks[i]]
    BY <2>1, SequenceShape, Zenon
  <2>3. /\ Len(d) = n + 1 /\ d[n + 1] = b /\ \A i \in 1..n : d[i] = blocks[i]
        /\ d \in Seq({d[i] : i \in DOMAIN d})
    BY <2>1, Extended
  <2>4. blocks' = d /\ chains' = chains \cup {d} /\ file' \in {d, file}
    BY <1>2 DEF anchor_root
  <2>5. DOMAIN d = 1..(n + 1) /\ d = [i \in 1..(n + 1) |-> d[i]]
    BY <2>3, SequenceShape, Zenon
  <2>6. /\ b.block_index = n /\ b.prev_hash = Link(blocks, n)
        /\ Whole(b) /\ Authentic(b)
    BY DEF Signed, Block, Body, Whole, Authentic
  <2> HIDE DEF b, d, n
  <2>7. \A i \in 1..(n + 1) : Linked(d, i) /\ Authentic(d[i]) /\ Whole(d[i])
    <3>1. ASSUME NEW i \in 1..n PROVE Linked(d, i) /\ Authentic(d[i]) /\ Whole(d[i])
      <4>1. Linked(blocks, i) /\ Authentic(blocks[i]) /\ Whole(blocks[i])
        BY <2>1, <2>2 DEF ChainInv, verify_chain
      <4>2. Link(d, i - 1) = Link(blocks, i - 1)
        BY <2>2, <2>3 DEF Link
      <4> QED BY <2>3, <4>1, <4>2 DEF Linked
    <3>2. Linked(d, n + 1) /\ Authentic(d[n + 1]) /\ Whole(d[n + 1])
      <4>1. Link(d, n) = Link(blocks, n)
        BY <2>2, <2>3 DEF Link
      <4> QED BY <2>2, <2>3, <2>6, <4>1 DEF Linked
    <3> QED BY <2>2, <3>1, <3>2
  <2>8. \A m \in Nat : m <= Len(d) => Prefix(d, m) \in chains'
    <3>1. ASSUME NEW m \in Nat, m <= n PROVE Prefix(d, m) \in chains
      <4>1. Prefix(d, m) = Prefix(blocks, m)
        BY <2>2, <2>3, <3>1 DEF Prefix
      <4> QED BY <2>1, <3>1, <4>1 DEF ChainInv, n
    <3>2. Prefix(d, n + 1) = d
      BY <2>5 DEF Prefix
    <3> QED BY <2>2, <2>3, <2>4, <3>1, <3>2
  <2>9. ASSUME NEW e \in chains, Len(e) > 0, e[Len(e)] = b PROVE e = d
    <3>1. Len(e) \in Nat /\ DOMAIN e = 1..Len(e) /\ e = [i \in 1..Len(e) |-> e[i]]
      <4>1. e \in Seq({e[i] : i \in DOMAIN e})
        BY DEF ChainInv
      <4> QED BY <4>1, SequenceShape, Zenon
    <3>2. Linked(e, Len(e))
      BY <2>9, <3>1 DEF ChainInv, verify_chain
    <3>3. Len(e) = n + 1
      BY <2>2, <2>6, <2>9, <3>1, <3>2 DEF Linked
    <3>4. Len(blocks) < Len(e) /\ e[Len(blocks) + 1].prev_hash = Link(blocks, Len(blocks))
      BY <2>2, <2>6, <2>9, <3>3 DEF n
    <3>5. Prefix(e, n) = blocks
      BY <2>1, <3>4, OnePast DEF n
    <3>6. \A i \in 1..(n + 1) : e[i] = d[i]
      <4>1. \A i \in 1..n : e[i] = d[i]
        BY <2>3, <3>5 DEF Prefix
      <4> QED BY <2>2, <2>3, <2>9, <3>3, <4>1
    <3> QED BY <2>5, <3>1, <3>3, <3>6
  <2>10. \A c \in chains' : c \in Seq({c[i] : i \in DOMAIN c})
    BY <2>3, <2>4 DEF ChainInv
  <2>11. \A c \in chains' : verify_chain(c) /\ \A i \in DOMAIN c : Whole(c[i])
    BY <2>4, <2>5, <2>7 DEF ChainInv, verify_chain
  <2>12. \A c \in chains', m \in Nat : m <= Len(c) => Prefix(c, m) \in chains'
    BY <2>4, <2>8 DEF ChainInv
  <2>13. \A c, e \in chains' :
           Len(c) > 0 /\ Len(e) > 0 /\ c[Len(c)] = e[Len(e)] => c = e
    BY <2>3, <2>4, <2>9 DEF ChainInv
  <2>14. blocks' \in chains' /\ file' \in chains'
    BY <2>4 DEF ChainInv
  <2> QED BY <2>10, <2>11, <2>12, <2>13, <2>14
          DEF ChainInv, verify_chain, Linked, Link, Authentic, Whole, Prefix
<1> QED BY <1>1, <1>2 DEF Next

LEMMA ChainInvariant == Spec => []ChainInv
  BY ChainInit, ChainStep, PTL DEF Spec

-----------------------------------------------------------------------------
\* The file on disk verifies at every moment, however often a save failed or the
\* fog was restarted.
THEOREM FileAlwaysVerifies == Spec => []OwnFileVerifies
<1>1. ChainInv => OwnFileVerifies
  BY DEF ChainInv, OwnFileVerifies
<1> QED BY <1>1, ChainInvariant, PTL

\* A file of blocks that carry the fog's signatures, of any length and in any
\* order, is accepted only if it is a chain the fog signed, block for block.
ForgeryDetected ==
  \A S : \A f \in Seq(S) :
    verify_chain(f) /\ (\A i \in DOMAIN f : Made(f[i])) => f \in chains

THEOREM ChainIsTamperEvident == Spec => []ForgeryDetected
<1>1. ChainInv => ForgeryDetected
  BY VerifiedIsSigned DEF ForgeryDetected
<1> QED BY <1>1, ChainInvariant, PTL

LEMMA BlockIsWhole ==
  ASSUME NEW body, NEW signature, NEW hash
  PROVE  LET b == Block(body, signature, hash)
         IN  b.signature = signature /\ Whole(b)
BY DEF Whole, Block, Body

\* The property the model is checked for, over every file it considers, for every
\* set of roots and every bound.
THEOREM NoTampering == Spec => []TamperEvident
<1>1. ASSUME ChainInv, NEW f \in Verified PROVE f \in chains
  <2>1. \A s \in SignedBlocks : Made(s)
    BY <1>1 DEF ChainInv, SignedBlocks, Made, Whole
  <2>2. CASE f \in Rearranged
    <3>1. PICK n \in 0..MaxEpoch : f \in [1..n -> SignedBlocks]
      BY <2>2 DEF Rearranged
    <3>2. f \in Seq(SignedBlocks) /\ \A i \in DOMAIN f : Made(f[i])
      BY <2>1, <3>1, BoundAssumption
    <3> QED BY <1>1, <3>2, VerifiedIsSigned DEF Verified
  <2>3. CASE f \in Edited
    <3>1. PICK i \in DOMAIN file : \E b \in EditedBlocks(file[i]) : f = [file EXCEPT ![i] = b]
      BY <2>3 DEF Edited
    <3>2. PICK b \in EditedBlocks(file[i]) : f = [file EXCEPT ![i] = b]
      BY <3>1
    <3>3. file \in chains /\ file \in Seq({file[j] : j \in DOMAIN file})
      BY <1>1 DEF ChainInv
    <3>4. \A j \in DOMAIN file : file[j] \in SignedBlocks
      BY <3>3 DEF SignedBlocks
    <3>5. Made(b)
      <4>1. Whole(file[i]) /\ \E x \in SignedBlocks : file[i].signature = x.signature
        BY <1>1, <3>4 DEF ChainInv
      <4>2. ASSUME NEW e \in Rewritten(file[i])
            PROVE  /\ e.signature = file[i].signature /\ Whole(e)
                   /\ Rehashed(e).signature = e.signature /\ Whole(Rehashed(e))
        <5>1. PICK root \in Roots, epoch_id \in 1..MaxEpoch :
                e = Block([block_index |-> file[i].block_index, epoch_id |-> epoch_id,
                           root |-> root, prev_hash |-> file[i].prev_hash],
                          file[i].signature, file[i].block_hash)
          BY DEF Rewritten
        <5>2. e.signature = file[i].signature /\ Whole(e)
          <6> DEFINE body == [block_index |-> file[i].block_index, root |-> root,
                              epoch_id |-> epoch_id, prev_hash |-> file[i].prev_hash]
          <6>1. e = Block(body, file[i].signature, file[i].block_hash)
            BY <5>1
          <6> HIDE DEF body
          <6>2. /\ Whole(Block(body, file[i].signature, file[i].block_hash))
                /\ Block(body, file[i].signature, file[i].block_hash).signature
                     = file[i].signature
            BY BlockIsWhole, Zenon
          <6> QED BY <6>1, <6>2
        <5>3. Rehashed(e).signature = e.signature /\ Whole(Rehashed(e))
          BY BlockIsWhole, Zenon DEF Rehashed
        <5> QED BY <5>2, <5>3
      <4>3. b.signature = file[i].signature /\ Whole(b)
        BY <4>2 DEF EditedBlocks
      <4> QED BY <4>1, <4>3 DEF Made, Whole
    <3> DEFINE S == {file[j] : j \in DOMAIN file} \cup {b}
    <3>6. f \in Seq(S) /\ DOMAIN f = DOMAIN file
      BY <3>2, <3>3
    <3>7. \A j \in DOMAIN f : Made(f[j])
      BY <2>1, <3>2, <3>4, <3>5, <3>6
    <3> HIDE DEF S
    <3> QED BY <1>1, <3>6, <3>7, VerifiedIsSigned DEF Verified
  <2> QED BY <2>2, <2>3 DEF Verified
<1>2. ChainInv => TamperEvident
  BY <1>1 DEF TamperEvident
<1> QED BY <1>2, ChainInvariant, PTL
=============================================================================
