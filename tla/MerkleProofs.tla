---------------------------- MODULE MerkleProofs ----------------------------
(***************************************************************************)
(* Trees of any number of leaves, epochs of any members, packages of any   *)
(* content.  A path leads to the root of a tree exactly if it is the proof *)
(* of a leaf (ExactlyTheProofs); so a root determines the set of leaves,   *)
(* and a verifier that knows the roots accepts what the fog issued and     *)
(* nothing else.  The recursive functions of MerkleTree are shown to have  *)
(* the values of their equations, and what holds at every level or after   *)
(* every step is proved by climbing a set of numbers.                      *)
(***************************************************************************)
EXTENDS MCMerkle, Integers, FiniteSetTheorems, TLAPS

\* Induction up to L over a set of numbers: the successor would map G into
\* itself without reaching 0, which a finite set does not allow.
LEMMA Climbing ==
  ASSUME NEW L \in Nat, NEW G \in SUBSET (0..L), 0 \in G,
         \A n \in G : n < L => n + 1 \in G
  PROVE  G = 0..L
<1> SUFFICES ASSUME NEW k \in 0..L, k \notin G PROVE FALSE
  OBVIOUS
<1> DEFINE H == {n \in G : n < k}
           next == [n \in H |-> n + 1]
<1>1. IsFiniteSet(H)
  <2>1. 0 \in Int /\ L \in Int
    OBVIOUS
  <2>2. IsFiniteSet(0..L) /\ H \in SUBSET (0..L)
    BY <2>1, FS_Interval
  <2> QED BY <2>2, FS_Subset, Zenon
<1>2. \A n \in H : n \in 0..L /\ n + 1 \in H
  OBVIOUS
<1>3. next \in [H -> H]
  BY <1>2
<1>4. next \in Injection(H, H)
  BY <1>2, <1>3 DEF Injection, IsInjective
<1>5. next \in Surjection(H, H)
  BY <1>1, <1>4, FS_Injection
<1>6. 0 \in H
  OBVIOUS
<1>7. PICK n \in H : next[n] = 0
  BY <1>5, <1>6 DEF Surjection
<1> QED BY <1>2, <1>7

-----------------------------------------------------------------------------
\* The recursive functions of MerkleTree have the values their equations say.
LEMMA PassesEquation ==
  ASSUME NEW leaves, Len(leaves) \in Nat
  PROVE  /\ Passes(leaves)[0] = leaves
         /\ \A n \in 1..Len(leaves) :
              Passes(leaves)[n] = Parents(Passes(leaves)[n - 1])
<1> DEFINE L == Len(leaves)
           Is(f, n) == f = [m \in 0..n |-> IF m = 0 THEN leaves ELSE Parents(f[m - 1])]
           G == {n \in 0..L : \E f : Is(f, n)}
<1>1. 0 \in G
  <2> DEFINE f == [m \in 0..0 |-> leaves]
  <2>1. Is(f, 0)
    OBVIOUS
  <2> HIDE DEF f, Is
  <2> QED BY <2>1
<1>2. ASSUME NEW n \in G, n < L PROVE n + 1 \in G
  <2>1. PICK f : Is(f, n)
    OBVIOUS
  <2> DEFINE g == [m \in 0..(n + 1) |-> IF m = 0 THEN leaves ELSE Parents(f[m - 1])]
  <2>2. \A m \in 0..n : g[m] = f[m]
    <3> SUFFICES ASSUME NEW m \in 0..n PROVE g[m] = f[m]
      OBVIOUS
    <3>1. f[m] = IF m = 0 THEN leaves ELSE Parents(f[m - 1])
      BY <2>1
    <3> QED BY <3>1
  <2>3. \A m \in 0..(n + 1) : m # 0 => g[m - 1] = f[m - 1]
    <3> HIDE DEF g
    <3> SUFFICES ASSUME NEW m \in 0..(n + 1), m # 0 PROVE g[m - 1] = f[m - 1]
      OBVIOUS
    <3>1. m - 1 \in 0..n
      OBVIOUS
    <3> QED BY <2>2, <3>1
  <2>4. Is(g, n + 1)
    BY <2>3
  <2> HIDE DEF g, Is
  <2> QED BY <1>2, <2>4
<1>3. L \in G
  <2> HIDE DEF G
  <2>1. G \in SUBSET (0..L)
    BY DEF G
  <2> QED BY <1>1, <1>2, <2>1, Climbing
<1>4. \E f : Is(f, L)
  BY <1>3
<1>5. Is(Passes(leaves), L)
  BY <1>4 DEF Passes
<1> DEFINE p == Passes(leaves)
<1> HIDE DEF p
<1>6. p = [m \in 0..L |-> IF m = 0 THEN leaves ELSE Parents(p[m - 1])]
  BY <1>5 DEF p
<1>7. p[0] = leaves /\ \A n \in 1..L : p[n] = Parents(p[n - 1])
  BY <1>6
<1> QED BY <1>7 DEF p

\* The loop of get_proof, level by level.
LEMMA WalkEquation ==
  ASSUME NEW levels, NEW start, Len(levels) \in Nat \ {0}
  PROVE  LET w == Walk(levels, start)
         IN  /\ w[0] = [index |-> start, path |-> <<>>]
             /\ \A n \in 1..(Len(levels) - 1) : w[n] = Ascend(w[n - 1], levels[n])
<1> DEFINE L == Len(levels) - 1
           first == [index |-> start, path |-> <<>>]
           Is(f, n) == f = [m \in 0..n |-> IF m = 0 THEN first ELSE Ascend(f[m - 1], levels[m])]
           G == {n \in 0..L : \E f : Is(f, n)}
<1>1. 0 \in G
  <2> DEFINE f == [m \in 0..0 |-> first]
  <2>1. Is(f, 0)
    OBVIOUS
  <2> HIDE DEF f, Is
  <2> QED BY <2>1
<1>2. ASSUME NEW n \in G, n < L PROVE n + 1 \in G
  <2>1. PICK f : Is(f, n)
    OBVIOUS
  <2> DEFINE g == [m \in 0..(n + 1) |-> IF m = 0 THEN first ELSE Ascend(f[m - 1], levels[m])]
  <2>2. \A m \in 0..n : g[m] = f[m]
    <3> SUFFICES ASSUME NEW m \in 0..n PROVE g[m] = f[m]
      OBVIOUS
    <3>1. f[m] = IF m = 0 THEN first ELSE Ascend(f[m - 1], levels[m])
      BY <2>1
    <3> QED BY <3>1
  <2>3. \A m \in 0..(n + 1) : m # 0 => g[m - 1] = f[m - 1]
    <3> HIDE DEF g
    <3> SUFFICES ASSUME NEW m \in 0..(n + 1), m # 0 PROVE g[m - 1] = f[m - 1]
      OBVIOUS
    <3>1. m - 1 \in 0..n
      OBVIOUS
    <3> QED BY <2>2, <3>1
  <2>4. Is(g, n + 1)
    BY <2>3
  <2> HIDE DEF g, Is
  <2> QED BY <1>2, <2>4
<1>3. L \in G
  <2> HIDE DEF G
  <2>1. G \in SUBSET (0..L)
    BY DEF G
  <2>2. L \in Nat
    OBVIOUS
  <2> QED BY <1>1, <1>2, <2>1, <2>2, Climbing
<1>4. \E f : Is(f, L)
  BY <1>3
<1>5. Is(Walk(levels, start), L)
  BY <1>4 DEF Walk
<1> DEFINE w == Walk(levels, start)
<1> HIDE DEF w
<1>6. w = [m \in 0..L |-> IF m = 0 THEN first ELSE Ascend(w[m - 1], levels[m])]
  BY <1>5 DEF w
<1>7. w[0] = first /\ \A n \in 1..L : w[n] = Ascend(w[n - 1], levels[n])
  BY <1>6
<1> QED BY <1>7 DEF w

\* The loop of reconstruct_root, step by step.
LEMMA CandidatesEquation ==
  ASSUME NEW leaf, NEW path, Len(path) \in Nat
  PROVE  LET c == Candidates(leaf, path)
         IN  /\ c[0] = leaf
             /\ \A n \in 1..Len(path) : c[n] = Climb(c[n - 1], path[n])
<1> DEFINE L == Len(path)
           Is(f, n) == f = [m \in 0..n |-> IF m = 0 THEN leaf ELSE Climb(f[m - 1], path[m])]
           G == {n \in 0..L : \E f : Is(f, n)}
<1>1. 0 \in G
  <2> DEFINE f == [m \in 0..0 |-> leaf]
  <2>1. Is(f, 0)
    OBVIOUS
  <2> HIDE DEF f, Is
  <2> QED BY <2>1
<1>2. ASSUME NEW n \in G, n < L PROVE n + 1 \in G
  <2>1. PICK f : Is(f, n)
    OBVIOUS
  <2> DEFINE g == [m \in 0..(n + 1) |-> IF m = 0 THEN leaf ELSE Climb(f[m - 1], path[m])]
  <2>2. \A m \in 0..n : g[m] = f[m]
    <3> SUFFICES ASSUME NEW m \in 0..n PROVE g[m] = f[m]
      OBVIOUS
    <3>1. f[m] = IF m = 0 THEN leaf ELSE Climb(f[m - 1], path[m])
      BY <2>1
    <3> QED BY <3>1
  <2>3. \A m \in 0..(n + 1) : m # 0 => g[m - 1] = f[m - 1]
    <3> HIDE DEF g
    <3> SUFFICES ASSUME NEW m \in 0..(n + 1), m # 0 PROVE g[m - 1] = f[m - 1]
      OBVIOUS
    <3>1. m - 1 \in 0..n
      OBVIOUS
    <3> QED BY <2>2, <3>1
  <2>4. Is(g, n + 1)
    BY <2>3
  <2> HIDE DEF g, Is
  <2> QED BY <1>2, <2>4
<1>3. L \in G
  <2> HIDE DEF G
  <2>1. G \in SUBSET (0..L)
    BY DEF G
  <2> QED BY <1>1, <1>2, <2>1, Climbing
<1>4. \E f : Is(f, L)
  BY <1>3
<1>5. Is(Candidates(leaf, path), L)
  BY <1>4 DEF Candidates
<1> DEFINE c == Candidates(leaf, path)
<1> HIDE DEF c
<1>6. c = [m \in 0..L |-> IF m = 0 THEN leaf ELSE Climb(c[m - 1], path[m])]
  BY <1>5 DEF c
<1>7. c[0] = leaf /\ \A n \in 1..L : c[n] = Climb(c[n - 1], path[n])
  BY <1>6
<1> QED BY <1>7 DEF c

-----------------------------------------------------------------------------
\* A function on 1..n is a sequence of length n.
LEMMA RowShape ==
  ASSUME NEW n \in Nat, NEW f, f = [i \in 1..n |-> f[i]]
  PROVE  Len(f) = n /\ DOMAIN f = 1..n /\ f \in Seq({f[i] : i \in 1..n})
<1> DEFINE S == {f[i] : i \in 1..n}
<1>1. \A i \in 1..n : f[i] \in S
  OBVIOUS
<1> HIDE DEF S
<1>2. f \in [1..n -> S]
  BY <1>1
<1>3. f \in Seq(S) /\ Len(f) = n
  BY <1>2
<1> QED BY <1>3 DEF S

\* A leaf is the hash of an identity, never of a node.
IsLeaf(x) == \E did, public_key : x = leaf_hash(did, public_key)

\* Distinct leaves in a row, as __init__ takes them.
LeafRow(row) ==
  /\ Len(row) \in Nat \ {0} /\ row = [i \in 1..Len(row) |-> row[i]]
  /\ \A i \in 1..Len(row) : IsLeaf(row[i])
  /\ \A i, j \in 1..Len(row) : row[i] = row[j] => i = j

\* The levels of a tree over leaves.
Tree(levels) ==
  /\ Len(levels) \in Nat \ {0} /\ LeafRow(levels[1])
  /\ \A n \in 1..(Len(levels) - 1) : levels[n + 1] = Parents(levels[n])
  /\ Len(levels[Len(levels)]) = 1

\* What one pass of _build makes of a level.
LEMMA ParentsShape ==
  ASSUME NEW level, Len(level) \in Nat \ {0}
  PROVE  /\ Len(Parents(level)) = (Len(level) + 1) \div 2
         /\ Len(Parents(level)) \in Nat \ {0}
         /\ \A i \in 1..Len(Parents(level)) :
              /\ 2*i <= Len(level) =>
                   Parents(level)[i] = node_hash(level[2*i - 1], level[2*i])
              /\ 2*i > Len(level) =>
                   2*i - 1 = Len(level) /\ Parents(level)[i] = level[2*i - 1]
<1> DEFINE n == (Len(level) + 1) \div 2
           P == Parents(level)
           E(i) == IF 2*i <= Len(level) THEN node_hash(level[2*i - 1], level[2*i])
                   ELSE level[2*i - 1]
<1>1. n \in Nat \ {0} /\ n = (Len(level) + 1) \div 2
  OBVIOUS
<1>2. P = [i \in 1..n |-> E(i)]
  BY DEF Parents
<1> HIDE DEF n, P, E
<1>3. P = [i \in 1..n |-> P[i]] /\ \A i \in 1..n : P[i] = E(i)
  BY <1>2
<1>4. Len(P) = n
  BY <1>1, <1>3, RowShape
<1>5. \A i \in 1..n : 2*i > Len(level) => 2*i - 1 = Len(level)
  BY <1>1
<1> QED BY <1>1, <1>3, <1>4, <1>5 DEF P, E

\* A pass leaves one node, or at least one node less than it had to spare.
LEMMA Halving ==
  ASSUME NEW a \in Nat \ {0}, NEW left \in Nat \ {0}, a = 1 \/ a <= left
  PROVE  (a + 1) \div 2 = 1 \/ (a + 1) \div 2 <= left - 1
OBVIOUS

\* With nothing to spare a level has exactly one node, and build stops there.
LEMMA AtMostOne ==
  ASSUME NEW a \in Nat \ {0}, a = 1 \/ a <= 0 \/ a <= 1
  PROVE  a = 1 /\ ~(a > 1)
OBVIOUS

\* _build ends: every pass shortens a level of two or more nodes.
LEMMA PassesShorten ==
  ASSUME NEW row, Len(row) \in Nat \ {0}
  PROVE  \A n \in 0..Len(row) :
           /\ Len(Passes(row)[n]) \in Nat \ {0}
           /\ Len(Passes(row)[n]) = 1 \/ Len(Passes(row)[n]) <= Len(row) - n
<1> DEFINE L == Len(row)
           p == Passes(row)
           G == {n \in 0..L : Len(p[n]) \in Nat \ {0} /\ (Len(p[n]) = 1 \/ Len(p[n]) <= L - n)}
<1>1. p[0] = row /\ \A n \in 1..L : p[n] = Parents(p[n - 1])
  BY PassesEquation
<1> HIDE DEF p
<1>2. 0 \in G
  BY <1>1
<1>3. ASSUME NEW n \in G, n < L PROVE n + 1 \in G
  <2>1. n + 1 \in 1..L /\ n + 1 \in 0..L /\ (n + 1) - 1 = n
    BY <1>3
  <2>2. p[n + 1] = Parents(p[n])
    BY <1>1, <2>1
  <2>3. Len(p[n + 1]) = (Len(p[n]) + 1) \div 2 /\ Len(p[n + 1]) \in Nat \ {0}
    BY <2>2, ParentsShape
  <2>4. n \in 0..L /\ Len(p[n]) \in Nat \ {0} /\ (Len(p[n]) = 1 \/ Len(p[n]) <= L - n)
    OBVIOUS
  <2>5. Len(p[n + 1]) = 1 \/ Len(p[n + 1]) <= L - (n + 1)
    <3> DEFINE a == Len(p[n])
    <3>1. a \in Nat \ {0} /\ (a = 1 \/ a <= L - n)
      BY <2>4
    <3>2. L - n \in Nat \ {0} /\ (L - n) - 1 = L - (n + 1)
      BY <1>3, <2>4
    <3> HIDE DEF a, L
    <3>3. (a + 1) \div 2 = 1 \/ (a + 1) \div 2 <= (L - n) - 1
      BY <3>1, <3>2, Halving
    <3>4. (a + 1) \div 2 = 1 \/ (a + 1) \div 2 <= L - (n + 1)
      BY <3>2, <3>3
    <3> QED BY <2>3, <3>4 DEF a
  <2> QED BY <2>1, <2>3, <2>5, Zenon
<1>4. G = 0..L
  <2> HIDE DEF G
  <2>1. G \in SUBSET (0..L)
    BY DEF G
  <2> QED BY <1>2, <1>3, <2>1, Climbing
<1> QED BY <1>4 DEF p

\* MerkleTree(leaves) builds a tree, over the leaves it is given.
LEMMA BuildsTree ==
  ASSUME NEW row, LeafRow(row)
  PROVE  Tree(build(row)) /\ build(row)[1] = row
<1> DEFINE L == Len(row)
           p == Passes(row)
           Least(n) == Len(p[n]) <= 1 /\ \A m \in 0..(n - 1) : Len(p[m]) > 1
           H == {n \in 0..L : \A m \in 0..n : Len(p[m]) > 1}
           h == CHOOSE n \in 0..L : Least(n)
<1>0. L \in Nat \ {0}
  BY DEF LeafRow
<1>1. p[0] = row /\ \A n \in 1..L : p[n] = Parents(p[n - 1])
  BY <1>0, PassesEquation
<1>2. \A n \in 0..L : Len(p[n]) \in Nat \ {0} /\ (Len(p[n]) = 1 \/ Len(p[n]) <= L - n)
  BY <1>0, PassesShorten
<1>h. build(row) = [n \in 1..(h + 1) |-> p[n - 1]]
  BY DEF build
<1> HIDE DEF p
<1>3. \E n \in 0..L : Least(n)
  <2> SUFFICES ASSUME \A n \in 0..L : ~Least(n) PROVE FALSE
    OBVIOUS
  <2>1. 0 \in H
    <3>1. ~Least(0)
      BY <1>0
    <3> QED BY <1>0, <1>2, <3>1
  <2>2. ASSUME NEW n \in H, n < L PROVE n + 1 \in H
    <3>1. n + 1 \in 0..L /\ n \in 0..L
      BY <2>2
    <3>2. \A m \in 0..((n + 1) - 1) : Len(p[m]) > 1
      BY <3>1
    <3>3. ~(Len(p[n + 1]) <= 1)
      BY <3>1, <3>2
    <3>4. Len(p[n + 1]) > 1
      BY <1>2, <3>1, <3>3
    <3>5. \A m \in 0..(n + 1) : m = n + 1 \/ m \in 0..((n + 1) - 1)
      BY <3>1
    <3> QED BY <3>1, <3>2, <3>4, <3>5
  <2>3. H = 0..L
    <3> HIDE DEF H
    <3>1. H \in SUBSET (0..L)
      BY DEF H
    <3> QED BY <1>0, <2>1, <2>2, <3>1, Climbing
  <2>4. L \in H
    BY <1>0, <2>3
  <2>5. Len(p[L]) > 1
    BY <1>0, <2>4
  <2>6. L \in 0..L /\ L - L = 0
    BY <1>0
  <2>7. Len(p[L]) \in Nat \ {0} /\ (Len(p[L]) = 1 \/ Len(p[L]) <= 0)
    BY <1>2, <2>6
  <2> QED BY <2>5, <2>7, AtMostOne
<1>4. h \in 0..L /\ Least(h)
  BY <1>3
<1> HIDE DEF h
<1> DEFINE b == build(row)
<1>5. b = [n \in 1..(h + 1) |-> b[n]] /\ \A n \in 1..(h + 1) : b[n] = p[n - 1]
  BY <1>h
<1> HIDE DEF b
<1>6. Len(b) = h + 1 /\ h + 1 \in Nat \ {0}
  <2>1. h + 1 \in Nat
    BY <1>0, <1>4
  <2> QED BY <1>0, <1>4, <1>5, <2>1, RowShape
<1>7. b[1] = row
  BY <1>0, <1>1, <1>4, <1>5
<1>8. \A n \in 1..(Len(b) - 1) : b[n + 1] = Parents(b[n])
  <2> SUFFICES ASSUME NEW n \in 1..h PROVE b[n + 1] = Parents(b[n])
    BY <1>0, <1>4, <1>6
  <2>1. n \in 1..L /\ n \in 1..(h + 1) /\ n + 1 \in 1..(h + 1) /\ (n + 1) - 1 = n
    BY <1>0, <1>4
  <2> QED BY <1>1, <1>5, <2>1
<1>9. Len(b[Len(b)]) = 1
  <2>1. h + 1 \in 1..(h + 1) /\ (h + 1) - 1 = h
    BY <1>0, <1>4
  <2>2. b[Len(b)] = p[h]
    BY <1>5, <1>6, <2>1
  <2>3. Len(p[h]) \in Nat \ {0} /\ Len(p[h]) <= 1
    BY <1>2, <1>4
  <2> QED BY <2>2, <2>3, AtMostOne
<1> QED BY <1>6, <1>7, <1>8, <1>9 DEF b, Tree

\* Every level of a tree has a node.
LEMMA LevelsNonempty ==
  ASSUME NEW levels, Tree(levels)
  PROVE  \A n \in 1..Len(levels) : Len(levels[n]) \in Nat \ {0}
<1> DEFINE L == Len(levels) - 1
           G == {n \in 0..L : Len(levels[n + 1]) \in Nat \ {0}}
<1>0. L \in Nat /\ Len(levels) = L + 1
  BY DEF Tree
<1>1. 0 \in G
  BY <1>0 DEF Tree, LeafRow
<1>2. ASSUME NEW n \in G, n < L PROVE n + 1 \in G
  <2>1. n + 1 \in 1..L /\ n + 1 \in 0..L
    BY <1>0, <1>2
  <2>2. levels[(n + 1) + 1] = Parents(levels[n + 1])
    BY <2>1 DEF Tree
  <2> QED BY <2>1, <2>2, ParentsShape
<1>3. G = 0..L
  <2> HIDE DEF G
  <2>1. G \in SUBSET (0..L)
    BY DEF G
  <2> QED BY <1>0, <1>1, <1>2, <2>1, Climbing
<1> SUFFICES ASSUME NEW n \in 1..(L + 1) PROVE Len(levels[n]) \in Nat \ {0}
  BY <1>0
<1>4. n - 1 \in 0..L /\ (n - 1) + 1 = n
  BY <1>0
<1>5. n - 1 \in G
  BY <1>3, <1>4
<1> QED BY <1>4, <1>5

-----------------------------------------------------------------------------
\* The paths of reconstruct_root: any steps, of any sibling and any side.
IsStep(step) == step = [sibling |-> step.sibling, side |-> step.side]

IsPath(path) ==
  /\ Len(path) \in Nat /\ path = [i \in 1..Len(path) |-> path[i]]
  /\ \A i \in 1..Len(path) : IsStep(path[i])

\* A path and one step more.
LEMMA Joined ==
  ASSUME NEW path, IsPath(path), NEW step, IsStep(step)
  PROVE  LET longer == path \o <<step>>
         IN  /\ IsPath(longer) /\ Len(longer) = Len(path) + 1
             /\ longer[Len(path) + 1] = step
             /\ \A i \in 1..Len(path) : longer[i] = path[i]
<1> DEFINE n == Len(path)
           longer == path \o <<step>>
           S == {path[i] : i \in 1..n} \cup {step}
<1>1. n \in Nat /\ path = [i \in 1..n |-> path[i]] /\ \A i \in 1..n : IsStep(path[i])
  BY DEF IsPath
<1>2. path \in Seq(S) /\ step \in S
  <2>1. path \in [1..n -> S]
    BY <1>1
  <2> HIDE DEF S
  <2>2. path \in Seq(S)
    BY <1>1, <2>1
  <2> QED BY <2>2 DEF S
<1> HIDE DEF S
<1>3. <<step>> \in Seq(S)
  BY <1>2
<1>4. longer \in Seq(S) /\ Len(longer) = n + 1
  BY <1>2, <1>3
<1>5. longer[n + 1] = step /\ \A i \in 1..n : longer[i] = path[i]
  BY <1>1, <1>2, <1>3
<1>6. longer = [i \in 1..(n + 1) |-> longer[i]]
  BY <1>4
<1>7. \A i \in 1..(n + 1) : IsStep(longer[i])
  <2> SUFFICES ASSUME NEW i \in 1..(n + 1) PROVE IsStep(longer[i])
    OBVIOUS
  <2>1. i = n + 1 \/ i \in 1..n
    BY <1>1
  <2> QED BY <1>1, <1>5, <2>1
<1> HIDE DEF longer
<1> QED BY <1>1, <1>4, <1>5, <1>6, <1>7 DEF IsPath, longer

\* Where a node is promoted get_proof adds nothing to the path.
LEMMA NothingJoined ==
  ASSUME NEW path, IsPath(path)
  PROVE  path \o <<>> = path
<1> DEFINE n == Len(path)
           S == {path[i] : i \in 1..n}
<1>1. n \in Nat /\ path = [i \in 1..n |-> path[i]]
  BY DEF IsPath
<1>2. path \in [1..n -> S]
  BY <1>1
<1> HIDE DEF S
<1>3. path \in Seq(S)
  BY <1>1, <1>2
<1> QED BY <1>3

\* A path is its front and its last step.
LEMMA Split ==
  ASSUME NEW path, IsPath(path), Len(path) # 0
  PROVE  \E front : /\ IsPath(front) /\ IsStep(path[Len(path)])
                    /\ path = front \o <<path[Len(path)]>>
<1> DEFINE n == Len(path)
           front == [i \in 1..(n - 1) |-> path[i]]
           longer == front \o <<path[n]>>
<1>1. /\ n \in Nat \ {0} /\ n - 1 \in Nat /\ path = [i \in 1..n |-> path[i]]
      /\ \A i \in 1..n : IsStep(path[i])
  BY DEF IsPath
<1>2. front = [i \in 1..(n - 1) |-> front[i]] /\ \A i \in 1..(n - 1) : front[i] = path[i]
  OBVIOUS
<1> HIDE DEF front
<1>3. Len(front) = n - 1
  BY <1>1, <1>2, RowShape
<1>4. IsPath(front)
  BY <1>1, <1>2, <1>3 DEF IsPath
<1>5. IsStep(path[n])
  BY <1>1
<1>6. /\ IsPath(longer) /\ Len(longer) = (n - 1) + 1 /\ longer[(n - 1) + 1] = path[n]
      /\ \A i \in 1..(n - 1) : longer[i] = front[i]
  BY <1>3, <1>4, <1>5, Joined
<1>7. longer = [i \in 1..n |-> longer[i]]
  <2> HIDE DEF longer
  <2> QED BY <1>1, <1>6 DEF IsPath
<1>8. \A i \in 1..n : longer[i] = path[i]
  <2> SUFFICES ASSUME NEW i \in 1..n PROVE longer[i] = path[i]
    OBVIOUS
  <2>1. CASE i = n
    BY <1>1, <1>6, <2>1
  <2>2. CASE i # n
    <3>1. i \in 1..(n - 1)
      BY <1>1, <2>2
    <3> QED BY <1>2, <1>6, <3>1
  <2> QED BY <2>1, <2>2
<1>9. longer = path
  <2> HIDE DEF longer
  <2> QED BY <1>1, <1>7, <1>8
<1> QED BY <1>4, <1>5, <1>9

\* Climbing one step more.
LEMMA OneStepMore ==
  ASSUME NEW leaf, NEW path, IsPath(path), NEW step, IsStep(step)
  PROVE  reconstruct_root(leaf, path \o <<step>>) = Climb(reconstruct_root(leaf, path), step)
<1> DEFINE n == Len(path)
           longer == path \o <<step>>
           c == Candidates(leaf, path)
           e == Candidates(leaf, longer)
           G == {i \in 0..n : e[i] = c[i]}
<1>1. n \in Nat
  BY DEF IsPath
<1>2. /\ Len(longer) = n + 1 /\ longer[n + 1] = step
      /\ \A i \in 1..n : longer[i] = path[i]
  BY Joined
<1> HIDE DEF longer
<1>3. c[0] = leaf /\ \A i \in 1..n : c[i] = Climb(c[i - 1], path[i])
  BY <1>1, CandidatesEquation
<1>4. e[0] = leaf /\ \A i \in 1..(n + 1) : e[i] = Climb(e[i - 1], longer[i])
  <2>1. Len(longer) \in Nat
    BY <1>1, <1>2
  <2> QED BY <1>2, <2>1, CandidatesEquation
<1>5. reconstruct_root(leaf, path) = c[n] /\ reconstruct_root(leaf, longer) = e[n + 1]
  BY <1>2 DEF reconstruct_root
<1> HIDE DEF c, e
<1>6. 0 \in G
  BY <1>1, <1>3, <1>4
<1>7. ASSUME NEW i \in G, i < n PROVE i + 1 \in G
  <2>1. i + 1 \in 0..n /\ i + 1 \in 1..n /\ i + 1 \in 1..(n + 1) /\ (i + 1) - 1 = i
    BY <1>1, <1>7
  <2>2. e[i + 1] = Climb(e[i], longer[i + 1]) /\ c[i + 1] = Climb(c[i], path[i + 1])
    BY <1>3, <1>4, <2>1
  <2> QED BY <1>2, <2>1, <2>2
<1>8. G = 0..n
  <2> HIDE DEF G
  <2>1. G \in SUBSET (0..n)
    BY DEF G
  <2> QED BY <1>1, <1>6, <1>7, <2>1, Climbing
<1>9. e[n] = c[n]
  <2>1. n \in 0..n
    BY <1>1
  <2> QED BY <1>8, <2>1
<1>10. n + 1 \in 1..(n + 1) /\ (n + 1) - 1 = n
  BY <1>1
<1>11. e[n + 1] = Climb(e[n], longer[n + 1])
  BY <1>4, <1>10
<1> QED BY <1>2, <1>5, <1>9, <1>11 DEF longer

\* The empty path leads from a leaf to itself: the tree of one device.
LEMMA NoStep ==
  ASSUME NEW leaf, NEW path, Len(path) = 0
  PROVE  reconstruct_root(leaf, path) = leaf
BY CandidatesEquation DEF reconstruct_root

\* What a climb comes to is never a leaf, and as a node it names both children.
LEMMA ClimbsToNoLeaf ==
  ASSUME NEW current, NEW step, NEW did, NEW key
  PROVE  Climb(current, step) # leaf_hash(did, key)
BY DEF Climb, Malformed, leaf_hash, node_hash

\* A climb that comes to a node started at one of its children, and its step
\* names the other one and the side it is on.
LEMMA ClimbNames ==
  ASSUME NEW current, NEW step, NEW left, NEW right,
         Climb(current, step) = node_hash(left, right)
  PROVE  \/ step.side = "L" /\ step.sibling = left /\ current = right
         \/ step.side = "R" /\ step.sibling = right /\ current = left
BY DEF Climb, Malformed, node_hash

\* Each side is hashed on its side.
LEMMA ClimbSides ==
  ASSUME NEW current, current # Malformed, NEW step
  PROVE  /\ step.side = "L" => Climb(current, step) = node_hash(step.sibling, current)
         /\ step.side = "R" => Climb(current, step) = node_hash(current, step.sibling)
BY DEF Climb

\* The prefixes keep leaves, nodes and malformed candidates apart.
LEMMA HashesWellFormed ==
  /\ \A did, key : leaf_hash(did, key) # Malformed
  /\ \A left, right : node_hash(left, right) # Malformed
  /\ \A did, key, left, right : leaf_hash(did, key) # node_hash(left, right)
BY DEF leaf_hash, node_hash, Malformed

-----------------------------------------------------------------------------
\* The steps of a proof at a level: the two children of a node name each other,
\* and a promoted node needs no step.
LEMMA Children ==
  ASSUME NEW level, Len(level) \in Nat \ {0}, NEW i \in Nat \ {0}
  PROVE  /\ 2*i <= Len(level) =>
              /\ ProofStep(level, 2*i - 1) = <<[sibling |-> level[2*i - 1], side |-> "L"]>>
              /\ ProofStep(level, 2*i - 2) = <<[sibling |-> level[2*i], side |-> "R"]>>
         /\ 2*i - 1 = Len(level) => ProofStep(level, 2*i - 2) = <<>>
         /\ (2*i - 1) \div 2 = i - 1 /\ (2*i - 2) \div 2 = i - 1
<1> DEFINE n == Len(level)
<1>1. Sibling(2*i - 1) = 2*i - 2 /\ Sibling(2*i - 2) = 2*i - 1
  BY DEF Sibling
<1>2. /\ 2*i <= n => /\ 2*i - 2 < n /\ 2*i - 2 < 2*i - 1 /\ (2*i - 2) + 1 = 2*i - 1
                     /\ 2*i - 1 < n /\ ~(2*i - 1 < 2*i - 2) /\ (2*i - 1) + 1 = 2*i
      /\ 2*i - 1 = n => ~(2*i - 1 < n)
      /\ (2*i - 1) \div 2 = i - 1 /\ (2*i - 2) \div 2 = i - 1
  OBVIOUS
<1>3. ASSUME 2*i <= n
      PROVE  /\ ProofStep(level, 2*i - 1) = <<[sibling |-> level[2*i - 1], side |-> "L"]>>
             /\ ProofStep(level, 2*i - 2) = <<[sibling |-> level[2*i], side |-> "R"]>>
  BY <1>1, <1>2, <1>3 DEF ProofStep
<1>4. ASSUME 2*i - 1 = n PROVE ProofStep(level, 2*i - 2) = <<>>
  BY <1>1, <1>2, <1>4 DEF ProofStep
<1> QED BY <1>2, <1>3, <1>4

\* A child from which the path's last step, if any, leads to a node.
CameThrough(level, i, leaf, path) ==
  \E j \in 1..Len(level) : \E front :
    /\ IsPath(front) /\ reconstruct_root(leaf, front) = level[j]
    /\ Ascend([index |-> j - 1, path |-> front], level) = [index |-> i - 1, path |-> path]

\* One level down: whatever climbs to a node came through one of its children,
\* and its last step is the one get_proof hands out there.
LEMMA StepDown ==
  ASSUME NEW level, Len(level) \in Nat \ {0}, NEW i \in 1..Len(Parents(level)),
         NEW leaf, IsLeaf(leaf), NEW path, IsPath(path),
         reconstruct_root(leaf, path) = Parents(level)[i]
  PROVE  CameThrough(level, i, leaf, path)
<1>1. i \in Nat \ {0}
  BY ParentsShape
<1>2. CASE 2*i <= Len(level)
  <2>1. reconstruct_root(leaf, path) = node_hash(level[2*i - 1], level[2*i])
    BY <1>2, ParentsShape
  <2>2. Len(path) # 0
    BY <2>1, NoStep, HashesWellFormed DEF IsLeaf
  <2>3. PICK front : /\ IsPath(front) /\ IsStep(path[Len(path)])
                     /\ path = front \o <<path[Len(path)]>>
    BY <2>2, Split
  <2> DEFINE step == path[Len(path)]
             below == reconstruct_root(leaf, front)
  <2>4. IsStep(step) /\ path = front \o <<step>>
    BY <2>3
  <2> HIDE DEF step
  <2>5. Climb(below, step) = node_hash(level[2*i - 1], level[2*i])
    BY <2>1, <2>3, <2>4, OneStepMore
  <2> HIDE DEF below
  <2>6. 2*i \in 1..Len(level) /\ 2*i - 1 \in 1..Len(level) /\ (2*i - 1) - 1 = 2*i - 2
    BY <1>1, <1>2
  <2>7. CASE step.side = "L" /\ step.sibling = level[2*i - 1] /\ below = level[2*i]
    <3>1. <<step>> = ProofStep(level, 2*i - 1)
      BY <1>1, <1>2, <2>4, <2>7, Children DEF IsStep
    <3>2. Ascend([index |-> 2*i - 1, path |-> front], level)
            = [index |-> i - 1, path |-> path]
      BY <1>1, <2>4, <3>1, Children DEF Ascend
    <3> DEFINE j == 2*i
    <3>3. /\ j \in 1..Len(level) /\ reconstruct_root(leaf, front) = level[j]
          /\ Ascend([index |-> j - 1, path |-> front], level)
               = [index |-> i - 1, path |-> path]
      BY <2>6, <2>7, <3>2 DEF below
    <3> HIDE DEF j
    <3> QED BY <2>3, <3>3 DEF CameThrough
  <2>8. CASE step.side = "R" /\ step.sibling = level[2*i] /\ below = level[2*i - 1]
    <3>1. <<step>> = ProofStep(level, 2*i - 2)
      BY <1>1, <1>2, <2>4, <2>8, Children DEF IsStep
    <3>2. Ascend([index |-> (2*i - 1) - 1, path |-> front], level)
            = [index |-> i - 1, path |-> path]
      BY <1>1, <2>4, <2>6, <3>1, Children DEF Ascend
    <3> QED BY <2>3, <2>6, <2>8, <3>2 DEF below, CameThrough
  <2>9. \/ step.side = "L" /\ step.sibling = level[2*i - 1] /\ below = level[2*i]
        \/ step.side = "R" /\ step.sibling = level[2*i] /\ below = level[2*i - 1]
    BY <2>5, ClimbNames
  <2> QED BY <2>7, <2>8, <2>9
<1>3. CASE ~(2*i <= Len(level))
  <2>1. 2*i - 1 = Len(level) /\ Parents(level)[i] = level[2*i - 1]
    BY <1>1, <1>3, ParentsShape
  <2>2. 2*i - 1 \in 1..Len(level) /\ (2*i - 1) - 1 = 2*i - 2
    BY <1>1, <2>1
  <2>3. path \o ProofStep(level, 2*i - 2) = path
    BY <1>1, <2>1, Children, NothingJoined
  <2>4. Ascend([index |-> (2*i - 1) - 1, path |-> path], level)
          = [index |-> i - 1, path |-> path]
    BY <1>1, <2>2, <2>3, Children DEF Ascend
  <2> QED BY <2>1, <2>2, <2>4 DEF CameThrough
<1> QED BY <1>2, <1>3

\* The parent to which the step of get_proof at a level leads.
GoesTo(level, j, leaf, path) ==
  \E i \in 1..Len(Parents(level)) : \E longer :
    /\ Ascend([index |-> j - 1, path |-> path], level) = [index |-> i - 1, path |-> longer]
    /\ IsPath(longer) /\ reconstruct_root(leaf, longer) = Parents(level)[i]

\* One level up: the step get_proof takes at a level leads to the parent.
LEMMA StepUp ==
  ASSUME NEW level, Len(level) \in Nat \ {0}, NEW j \in 1..Len(level),
         NEW leaf, NEW path, IsPath(path),
         reconstruct_root(leaf, path) = level[j], level[j] # Malformed
  PROVE  GoesTo(level, j, leaf, path)
<1> DEFINE n == Len(level)
<1>1. PICK i \in Nat \ {0} : j = 2*i \/ j = 2*i - 1
  <2>1. j = 2*((j + 1) \div 2) \/ j = 2*((j + 1) \div 2) - 1
    OBVIOUS
  <2>2. (j + 1) \div 2 \in Nat \ {0}
    OBVIOUS
  <2> QED BY <2>1, <2>2
<1>2. i \in 1..Len(Parents(level))
  <2>1. i <= (n + 1) \div 2
    BY <1>1
  <2> QED BY <2>1, ParentsShape
<1>3. CASE j = 2*i
  <2> DEFINE step == [sibling |-> level[2*i - 1], side |-> "L"]
             longer == path \o <<step>>
  <2>1. 2*i <= n
    BY <1>3
  <2>2. IsStep(step) /\ step.side = "L" /\ step.sibling = level[2*i - 1]
    BY DEF IsStep
  <2>3. ProofStep(level, 2*i - 1) = <<step>>
    BY <2>1, Children
  <2> HIDE DEF step
  <2>4. IsPath(longer)
    BY <2>2, Joined
  <2>5. reconstruct_root(leaf, longer) = node_hash(level[2*i - 1], level[2*i])
    BY <1>3, <2>2, OneStepMore, ClimbSides
  <2>6. reconstruct_root(leaf, longer) = Parents(level)[i]
    BY <1>2, <2>1, <2>5, ParentsShape
  <2>7. Ascend([index |-> j - 1, path |-> path], level) = [index |-> i - 1, path |-> longer]
    BY <1>3, <2>3, Children DEF Ascend
  <2> QED BY <1>2, <2>4, <2>6, <2>7 DEF GoesTo
<1>4. CASE j = 2*i - 1 /\ 2*i <= n
  <2> DEFINE step == [sibling |-> level[2*i], side |-> "R"]
             longer == path \o <<step>>
  <2>1. 2*i <= n
    BY <1>4
  <2>2. IsStep(step) /\ step.side = "R" /\ step.sibling = level[2*i]
    BY DEF IsStep
  <2>3. ProofStep(level, 2*i - 2) = <<step>>
    BY <2>1, Children
  <2> HIDE DEF step
  <2>4. IsPath(longer)
    BY <2>2, Joined
  <2>5. reconstruct_root(leaf, longer) = node_hash(level[2*i - 1], level[2*i])
    BY <1>4, <2>2, OneStepMore, ClimbSides
  <2>6. reconstruct_root(leaf, longer) = Parents(level)[i]
    BY <1>2, <2>1, <2>5, ParentsShape
  <2>7. j - 1 = 2*i - 2
    BY <1>4
  <2>8. Ascend([index |-> j - 1, path |-> path], level) = [index |-> i - 1, path |-> longer]
    BY <2>3, <2>7, Children DEF Ascend
  <2> QED BY <1>2, <2>4, <2>6, <2>8 DEF GoesTo
<1>5. CASE j = 2*i - 1 /\ ~(2*i <= n)
  <2>1. 2*i - 1 = n /\ j - 1 = 2*i - 2
    BY <1>5
  <2>2. Parents(level)[i] = level[j]
    BY <1>2, <1>5, ParentsShape
  <2>3. path \o ProofStep(level, 2*i - 2) = path
    BY <2>1, Children, NothingJoined
  <2>4. Ascend([index |-> j - 1, path |-> path], level) = [index |-> i - 1, path |-> path]
    BY <2>1, <2>3, Children DEF Ascend
  <2> QED BY <1>2, <2>2, <2>4 DEF GoesTo
<1> QED BY <1>1, <1>3, <1>4, <1>5

\* Every node of a tree is a hash.
LEMMA NodesWellFormed ==
  ASSUME NEW level, Len(level) \in Nat \ {0},
         \A j \in 1..Len(level) : level[j] # Malformed
  PROVE  \A i \in 1..Len(Parents(level)) : Parents(level)[i] # Malformed
<1> SUFFICES ASSUME NEW i \in 1..Len(Parents(level)) PROVE Parents(level)[i] # Malformed
  OBVIOUS
<1>1. i \in Nat \ {0}
  BY ParentsShape
<1>2. CASE 2*i <= Len(level)
  BY <1>2, ParentsShape, HashesWellFormed
<1>3. CASE ~(2*i <= Len(level))
  <2>1. 2*i - 1 \in 1..Len(level) /\ Parents(level)[i] = level[2*i - 1]
    BY <1>1, <1>3, ParentsShape
  <2> QED BY <2>1
<1> QED BY <1>2, <1>3

\* The proof of the k-th leaf, as far as level n, leads to the node it has reached.
Reaches(levels, k, n) ==
  \E i \in 1..Len(levels[n + 1]) : \E path :
    /\ Walk(levels, k - 1)[n] = [index |-> i - 1, path |-> path]
    /\ IsPath(path) /\ reconstruct_root(levels[1][k], path) = levels[n + 1][i]

\* Every proof reaches a node of every level, from level to level.
LEMMA ProofsReach ==
  ASSUME NEW levels, Tree(levels)
  PROVE  \A n \in 0..(Len(levels) - 1) :
           /\ \A i \in 1..Len(levels[n + 1]) : levels[n + 1][i] # Malformed
           /\ \A k \in 1..Len(levels[1]) : Reaches(levels, k, n)
<1> DEFINE L == Len(levels) - 1
           G == {n \in 0..L : /\ \A i \in 1..Len(levels[n + 1]) : levels[n + 1][i] # Malformed
                              /\ \A k \in 1..Len(levels[1]) : Reaches(levels, k, n)}
<1>0. /\ L \in Nat /\ Len(levels) = L + 1 /\ Len(levels) \in Nat \ {0}
      /\ LeafRow(levels[1])
  BY DEF Tree
<1>w. \A start : /\ Walk(levels, start)[0] = [index |-> start, path |-> <<>>]
                 /\ \A n \in 1..L : Walk(levels, start)[n]
                                      = Ascend(Walk(levels, start)[n - 1], levels[n])
  BY <1>0, WalkEquation
<1>1. 0 \in G
  <2>1. \A i \in 1..Len(levels[1]) : levels[1][i] # Malformed
    BY <1>0, HashesWellFormed DEF LeafRow, IsLeaf
  <2>2. ASSUME NEW k \in 1..Len(levels[1]) PROVE Reaches(levels, k, 0)
    <3>1. IsPath(<<>>) /\ Len(<<>>) = 0
      BY DEF IsPath
    <3>2. reconstruct_root(levels[1][k], <<>>) = levels[1][k]
      BY <3>1, NoStep
    <3>3. Walk(levels, k - 1)[0] = [index |-> k - 1, path |-> <<>>]
      BY <1>w
    <3> QED BY <3>1, <3>2, <3>3 DEF Reaches
  <2> QED BY <1>0, <2>1, <2>2
<1>2. ASSUME NEW n \in G, n < L PROVE n + 1 \in G
  <2>1. n + 1 \in 1..L /\ n + 1 \in 0..L /\ (n + 1) - 1 = n /\ n + 1 \in 1..Len(levels)
    BY <1>0, <1>2
  <2>2. Len(levels[n + 1]) \in Nat \ {0} /\ levels[(n + 1) + 1] = Parents(levels[n + 1])
    BY <2>1, LevelsNonempty DEF Tree
  <2>3. /\ \A i \in 1..Len(levels[n + 1]) : levels[n + 1][i] # Malformed
        /\ \A k \in 1..Len(levels[1]) : Reaches(levels, k, n)
    BY <1>2
  <2>4. \A i \in 1..Len(levels[(n + 1) + 1]) : levels[(n + 1) + 1][i] # Malformed
    BY <2>2, <2>3, NodesWellFormed
  <2>5. ASSUME NEW k \in 1..Len(levels[1]) PROVE Reaches(levels, k, n + 1)
    <3>1. PICK j, path :
            /\ j \in 1..Len(levels[n + 1])
            /\ Walk(levels, k - 1)[n] = [index |-> j - 1, path |-> path]
            /\ IsPath(path) /\ reconstruct_root(levels[1][k], path) = levels[n + 1][j]
      BY <2>3 DEF Reaches
    <3>2. PICK i, longer :
            /\ i \in 1..Len(Parents(levels[n + 1]))
            /\ Ascend([index |-> j - 1, path |-> path], levels[n + 1])
                 = [index |-> i - 1, path |-> longer]
            /\ IsPath(longer)
            /\ reconstruct_root(levels[1][k], longer) = Parents(levels[n + 1])[i]
      <4> DEFINE row == levels[n + 1]
                 leaf == levels[1][k]
      <4> HIDE DEF row, leaf
      <4>1. /\ Len(row) \in Nat \ {0} /\ j \in 1..Len(row) /\ IsPath(path)
            /\ reconstruct_root(leaf, path) = row[j] /\ row[j] # Malformed
        BY <2>2, <2>3, <3>1 DEF row, leaf
      <4>2. GoesTo(row, j, leaf, path)
        BY <4>1, StepUp
      <4> QED BY <4>2 DEF row, leaf, GoesTo
    <3>3. Walk(levels, k - 1)[n + 1] = [index |-> i - 1, path |-> longer]
      BY <1>w, <2>1, <3>1, <3>2
    <3> QED BY <2>2, <3>2, <3>3 DEF Reaches
  <2> QED BY <2>1, <2>4, <2>5
<1>3. G = 0..L
  <2> HIDE DEF G
  <2>1. G \in SUBSET (0..L)
    BY DEF G
  <2> QED BY <1>0, <1>1, <1>2, <2>1, Climbing
<1> QED BY <1>3

\* Whatever climbs to a node at level n is the proof of one of the leaves.
OnlyProofs(levels, n) ==
  \A i \in 1..Len(levels[n + 1]) : \A leaf, path :
    IsLeaf(leaf) /\ IsPath(path) /\ reconstruct_root(leaf, path) = levels[n + 1][i] =>
      \E k \in 1..Len(levels[1]) :
        levels[1][k] = leaf /\ Walk(levels, k - 1)[n] = [index |-> i - 1, path |-> path]

\* At every level only the proofs do: the case of a promoted node included.
LEMMA OnlyProofsReach ==
  ASSUME NEW levels, Tree(levels)
  PROVE  \A n \in 0..(Len(levels) - 1) : OnlyProofs(levels, n)
<1> DEFINE L == Len(levels) - 1
           G == {n \in 0..L : OnlyProofs(levels, n)}
<1>0. /\ L \in Nat /\ Len(levels) = L + 1 /\ Len(levels) \in Nat \ {0}
      /\ LeafRow(levels[1])
  BY DEF Tree
<1>w. \A start : /\ Walk(levels, start)[0] = [index |-> start, path |-> <<>>]
                 /\ \A n \in 1..L : Walk(levels, start)[n]
                                      = Ascend(Walk(levels, start)[n - 1], levels[n])
  BY <1>0, WalkEquation
<1>1. 0 \in G
  <2> SUFFICES ASSUME NEW i \in 1..Len(levels[1]), NEW leaf, NEW path,
                      IsLeaf(leaf), IsPath(path),
                      reconstruct_root(leaf, path) = levels[1][i]
               PROVE  \E k \in 1..Len(levels[1]) :
                        /\ levels[1][k] = leaf
                        /\ Walk(levels, k - 1)[0] = [index |-> i - 1, path |-> path]
    BY <1>0 DEF OnlyProofs
  <2>1. IsLeaf(levels[1][i])
    BY <1>0 DEF LeafRow
  <2>2. Len(path) = 0
    <3> SUFFICES ASSUME Len(path) # 0 PROVE FALSE
      OBVIOUS
    <3>1. PICK front : /\ IsPath(front) /\ IsStep(path[Len(path)])
                       /\ path = front \o <<path[Len(path)]>>
      BY Split
    <3> DEFINE step == path[Len(path)]
    <3>2. IsStep(step) /\ path = front \o <<step>>
      BY <3>1
    <3> HIDE DEF step
    <3>3. levels[1][i] = Climb(reconstruct_root(leaf, front), step)
      BY <3>1, <3>2, OneStepMore
    <3>4. PICK did, key : levels[1][i] = leaf_hash(did, key)
      BY <2>1 DEF IsLeaf
    <3> QED BY <3>3, <3>4, ClimbsToNoLeaf
  <2>3. path = <<>>
    BY <2>2 DEF IsPath
  <2>4. levels[1][i] = leaf
    BY <2>2, NoStep
  <2> QED BY <1>w, <2>3, <2>4
<1>2. ASSUME NEW n \in G, n < L PROVE n + 1 \in G
  <2>1. n + 1 \in 1..L /\ n + 1 \in 0..L /\ (n + 1) - 1 = n /\ n + 1 \in 1..Len(levels)
    BY <1>0, <1>2
  <2>2. Len(levels[n + 1]) \in Nat \ {0} /\ levels[(n + 1) + 1] = Parents(levels[n + 1])
    BY <2>1, LevelsNonempty DEF Tree
  <2>3. OnlyProofs(levels, n)
    BY <1>2
  <2>4. ASSUME NEW i \in 1..Len(Parents(levels[n + 1])), NEW leaf, NEW path,
               IsLeaf(leaf), IsPath(path),
               reconstruct_root(leaf, path) = Parents(levels[n + 1])[i]
        PROVE  \E k \in 1..Len(levels[1]) :
                 /\ levels[1][k] = leaf
                 /\ Walk(levels, k - 1)[n + 1] = [index |-> i - 1, path |-> path]
    <3>1. PICK j, front :
            /\ j \in 1..Len(levels[n + 1])
            /\ IsPath(front) /\ reconstruct_root(leaf, front) = levels[n + 1][j]
            /\ Ascend([index |-> j - 1, path |-> front], levels[n + 1])
                 = [index |-> i - 1, path |-> path]
      <4> DEFINE row == levels[n + 1]
      <4> HIDE DEF row
      <4>1. /\ Len(row) \in Nat \ {0} /\ i \in 1..Len(Parents(row))
            /\ IsLeaf(leaf) /\ IsPath(path)
            /\ reconstruct_root(leaf, path) = Parents(row)[i]
        BY <2>2, <2>4 DEF row
      <4>2. CameThrough(row, i, leaf, path)
        BY <4>1, StepDown
      <4> QED BY <4>2 DEF row, CameThrough
    <3>2. PICK k \in 1..Len(levels[1]) :
            /\ levels[1][k] = leaf
            /\ Walk(levels, k - 1)[n] = [index |-> j - 1, path |-> front]
      BY <2>3, <2>4, <3>1 DEF OnlyProofs
    <3>3. Walk(levels, k - 1)[n + 1] = [index |-> i - 1, path |-> path]
      BY <1>w, <2>1, <3>1, <3>2
    <3> QED BY <3>2, <3>3
  <2>5. OnlyProofs(levels, n + 1)
    BY <2>2, <2>4 DEF OnlyProofs
  <2> QED BY <2>1, <2>5
<1>3. G = 0..L
  <2> HIDE DEF G
  <2>1. G \in SUBSET (0..L)
    BY DEF G
  <2> QED BY <1>0, <1>1, <1>2, <2>1, Climbing
<1> QED BY <1>3

\* A path leads from a leaf to the root exactly if the leaf is in the tree and
\* the path is the proof get_proof hands out for it.
THEOREM ExactlyTheProofs ==
  ASSUME NEW levels, Tree(levels), NEW leaf, IsLeaf(leaf), NEW path, IsPath(path)
  PROVE  verify_proof(leaf, path, root(levels)) <=>
           /\ \E k \in 1..Len(levels[1]) : levels[1][k] = leaf
           /\ path = get_proof(levels, leaf)
<1> DEFINE L == Len(levels) - 1
<1>0. /\ L \in Nat /\ Len(levels) = L + 1 /\ L + 1 \in 1..Len(levels)
      /\ Len(levels[L + 1]) = 1 /\ LeafRow(levels[1])
  BY DEF Tree
<1>1. root(levels) = levels[L + 1][1]
  BY <1>0 DEF root, Last
<1>2. ASSUME NEW k \in 1..Len(levels[1]), levels[1][k] = leaf
      PROVE  get_proof(levels, leaf) = Walk(levels, k - 1)[L].path
  <2>1. DOMAIN levels[1] = 1..Len(levels[1])
    BY <1>0, RowShape DEF LeafRow
  <2>2. \A i \in DOMAIN levels[1] : levels[1][i] = leaf => i = k
    BY <1>0, <1>2, <2>1 DEF LeafRow
  <2>3. (CHOOSE i \in DOMAIN levels[1] : levels[1][i] = leaf) = k
    BY <1>2, <2>1, <2>2
  <2> QED BY <2>3 DEF get_proof, index_of
<1>3. ASSUME verify_proof(leaf, path, root(levels))
      PROVE  /\ \E k \in 1..Len(levels[1]) : levels[1][k] = leaf
             /\ path = get_proof(levels, leaf)
  <2>1. reconstruct_root(leaf, path) = levels[L + 1][1] /\ 1 \in 1..Len(levels[L + 1])
    BY <1>0, <1>1, <1>3 DEF verify_proof
  <2>2. L \in 0..L /\ OnlyProofs(levels, L)
    BY <1>0, OnlyProofsReach
  <2>3. PICK k \in 1..Len(levels[1]) :
          /\ levels[1][k] = leaf
          /\ Walk(levels, k - 1)[L] = [index |-> 1 - 1, path |-> path]
    BY <2>1, <2>2 DEF OnlyProofs
  <2> QED BY <1>2, <2>3
<1>4. ASSUME NEW k \in 1..Len(levels[1]), levels[1][k] = leaf,
             path = get_proof(levels, leaf)
      PROVE  verify_proof(leaf, path, root(levels))
  <2>1. L \in 0..L /\ Reaches(levels, k, L)
    BY <1>0, ProofsReach
  <2>2. PICK i, p :
          /\ i \in 1..Len(levels[L + 1])
          /\ Walk(levels, k - 1)[L] = [index |-> i - 1, path |-> p]
          /\ IsPath(p) /\ reconstruct_root(levels[1][k], p) = levels[L + 1][i]
    BY <2>1 DEF Reaches
  <2>3. p = path /\ i = 1
    BY <1>0, <1>2, <1>4, <2>2
  <2> QED BY <1>1, <1>4, <2>2, <2>3 DEF verify_proof
<1> QED BY <1>3, <1>4

\* A proof that is handed out is a path.
LEMMA ProofsArePaths ==
  ASSUME NEW levels, Tree(levels), NEW k \in 1..Len(levels[1])
  PROVE  IsPath(get_proof(levels, levels[1][k]))
<1> DEFINE L == Len(levels) - 1
<1>0. L \in Nat /\ LeafRow(levels[1])
  BY DEF Tree
<1>1. DOMAIN levels[1] = 1..Len(levels[1])
  BY <1>0, RowShape DEF LeafRow
<1>2. (CHOOSE i \in DOMAIN levels[1] : levels[1][i] = levels[1][k]) = k
  BY <1>0, <1>1 DEF LeafRow
<1>3. get_proof(levels, levels[1][k]) = Walk(levels, k - 1)[L].path
  BY <1>2 DEF get_proof, index_of
<1>4. Reaches(levels, k, L)
  <2>1. L \in 0..L
    BY <1>0
  <2> HIDE DEF L
  <2> QED BY <2>1, ProofsReach DEF L
<1> QED BY <1>3, <1>4 DEF Reaches

-----------------------------------------------------------------------------
\* A row of leaves whose keys, by which they are sorted, are different numbers.
Sortable(row) ==
  /\ LeafRow(row)
  /\ \A i \in 1..Len(row) : row[i][2] \in Nat
  /\ \A i, j \in 1..Len(row) : row[i][2] = row[j][2] => i = j

\* The leaves before a leaf.
Before(row, leaf) == {other \in Range(row) : other[2] < leaf[2]}

\* A row of distinct leaves has as many leaves as places.
LEMMA RowsAreFinite ==
  ASSUME NEW row, Len(row) \in Nat, row = [i \in 1..Len(row) |-> row[i]],
         \A i, j \in 1..Len(row) : row[i] = row[j] => i = j
  PROVE  /\ IsFiniteSet(Range(row)) /\ Cardinality(Range(row)) = Len(row)
         /\ Range(row) = {row[i] : i \in 1..Len(row)}
<1> DEFINE n == Len(row)
           R == Range(row)
<1>1. DOMAIN row = 1..n
  BY RowShape
<1>2. R = {row[i] : i \in 1..n}
  BY <1>1 DEF Range
<1>3. row \in Bijection(1..n, R)
  BY <1>1, <1>2 DEF Bijection, Injection, Surjection, IsInjective
<1>4. ExistsBijection(1..n, R)
  BY <1>3 DEF ExistsBijection
<1> HIDE DEF R
<1>5. Cardinality(R) = n
  BY <1>4, FS_CountingElements
<1>6. IsFiniteSet(R)
  BY <1>4, FS_NatBijection
<1> QED BY <1>2, <1>5, <1>6 DEF R

\* The number of leaves before a leaf is its place, and no two share one.
LEMMA Places ==
  ASSUME NEW row, Sortable(row)
  PROVE  /\ \A leaf \in Range(row) :
              Cardinality(Before(row, leaf)) \in 0..(Len(row) - 1)
         /\ \A leaf, other \in Range(row) :
              Cardinality(Before(row, leaf)) = Cardinality(Before(row, other))
                => leaf = other
<1> DEFINE n == Len(row)
           R == Range(row)
           B(leaf) == Before(row, leaf)
<1>1. /\ n \in Nat \ {0} /\ row = [i \in 1..n |-> row[i]]
      /\ \A i, j \in 1..n : row[i] = row[j] => i = j
      /\ \A i \in 1..n : row[i][2] \in Nat
      /\ \A i, j \in 1..n : row[i][2] = row[j][2] => i = j
  BY DEF Sortable, LeafRow
<1>2. IsFiniteSet(R) /\ Cardinality(R) = n /\ R = {row[i] : i \in 1..n}
  BY <1>1, RowsAreFinite
<1>3. /\ \A leaf \in R : leaf[2] \in Nat
      /\ \A leaf, other \in R : leaf[2] = other[2] => leaf = other
  BY <1>1, <1>2
<1>4. \A leaf, other : other \in B(leaf) <=> other \in R /\ other[2] < leaf[2]
  BY DEF Before
<1> HIDE DEF R, B, n
<1>5. ASSUME NEW leaf \in R
      PROVE  IsFiniteSet(B(leaf)) /\ Cardinality(B(leaf)) \in 0..(n - 1)
  <2>1. B(leaf) \in SUBSET R /\ leaf \notin B(leaf) /\ B(leaf) # R
    BY <1>3, <1>4
  <2>2. /\ IsFiniteSet(B(leaf)) /\ Cardinality(B(leaf)) <= n
        /\ Cardinality(B(leaf)) # n
    BY <1>2, <2>1, FS_Subset
  <2>3. Cardinality(B(leaf)) \in Nat
    BY <2>2, FS_CardinalityType
  <2> QED BY <1>1, <2>2, <2>3
<1>6. ASSUME NEW leaf \in R, NEW other \in R, leaf[2] < other[2]
      PROVE  Cardinality(B(leaf)) # Cardinality(B(other))
  <2>1. B(leaf) \in SUBSET B(other)
    BY <1>3, <1>4, <1>6
  <2>2. leaf \in B(other) /\ leaf \notin B(leaf)
    BY <1>3, <1>4, <1>6
  <2>3. B(leaf) # B(other)
    BY <2>2
  <2> QED BY <1>5, <2>1, <2>3, FS_Subset
<1>7. ASSUME NEW leaf \in R, NEW other \in R,
             Cardinality(B(leaf)) = Cardinality(B(other))
      PROVE  leaf = other
  <2>1. leaf[2] < other[2] \/ other[2] < leaf[2] \/ leaf[2] = other[2]
    BY <1>3
  <2> QED BY <1>3, <1>6, <1>7, <2>1
<1> QED BY <1>5, <1>7 DEF R, B, n

\* sorted has the same leaves as what it sorts.
LEMMA SortedRow ==
  ASSUME NEW row, Sortable(row)
  PROVE  /\ LeafRow(sorted(row)) /\ Len(sorted(row)) = Len(row)
         /\ {sorted(row)[i] : i \in 1..Len(row)} = Range(row)
<1> DEFINE n == Len(row)
           R == Range(row)
           place == [leaf \in R |-> Cardinality(Before(row, leaf))]
           s == sorted(row)
<1>1. /\ n \in Nat \ {0} /\ row = [i \in 1..n |-> row[i]]
      /\ \A i \in 1..n : IsLeaf(row[i])
      /\ \A i, j \in 1..n : row[i] = row[j] => i = j
  BY DEF Sortable, LeafRow
<1>2. /\ IsFiniteSet(R) /\ Cardinality(R) = n /\ R = {row[i] : i \in 1..n}
      /\ DOMAIN row = 1..n
  BY <1>1, RowsAreFinite, RowShape
<1>3. s = [i \in 1..n |-> CHOOSE leaf \in R : Cardinality(Before(row, leaf)) = i - 1]
  BY <1>2 DEF sorted, Before
<1>4. /\ \A leaf \in R : place[leaf] = Cardinality(Before(row, leaf))
      /\ place = [leaf \in R |-> place[leaf]]
  OBVIOUS
<1> HIDE DEF R, s, n, place
<1>5. /\ \A leaf \in R : Cardinality(Before(row, leaf)) \in 0..(n - 1)
      /\ \A leaf, other \in R :
           Cardinality(Before(row, leaf)) = Cardinality(Before(row, other)) => leaf = other
  BY Places DEF R, n
<1>6. place \in Injection(R, 0..(n - 1))
  BY <1>4, <1>5 DEF Injection, IsInjective
<1>7. IsFiniteSet(0..(n - 1)) /\ Cardinality(0..(n - 1)) = n
  <2>1. 0 \in Int /\ n - 1 \in Int
    BY <1>1
  <2>2. ~(0 > n - 1) /\ (n - 1) - 0 + 1 = n
    BY <1>1
  <2>3. /\ IsFiniteSet(0..(n - 1))
        /\ Cardinality(0..(n - 1)) = IF 0 > n - 1 THEN 0 ELSE (n - 1) - 0 + 1
    BY <2>1, FS_Interval, Zenon
  <2> QED BY <2>2, <2>3, Zenon
<1>8. place \in Surjection(R, 0..(n - 1))
  BY <1>2, <1>6, <1>7, FS_Injection
<1>9. \A i \in 1..n : \E leaf \in R : Cardinality(Before(row, leaf)) = i - 1
  <2> SUFFICES ASSUME NEW i \in 1..n
               PROVE  \E leaf \in R : Cardinality(Before(row, leaf)) = i - 1
    OBVIOUS
  <2>1. i - 1 \in 0..(n - 1)
    BY <1>1
  <2>2. PICK leaf \in R : place[leaf] = i - 1
    BY <1>8, <2>1 DEF Surjection
  <2> QED BY <1>4, <2>2
<1>10. \A i \in 1..n : s[i] \in R /\ Cardinality(Before(row, s[i])) = i - 1
  BY <1>3, <1>9
<1>11. s = [i \in 1..n |-> s[i]]
  BY <1>3
<1>12. Len(s) = n
  BY <1>1, <1>11, RowShape
<1>13. \A i, j \in 1..n : s[i] = s[j] => i = j
  BY <1>1, <1>10
<1>14. \A leaf \in R : \E i \in 1..n : s[i] = leaf
  <2> SUFFICES ASSUME NEW leaf \in R PROVE \E i \in 1..n : s[i] = leaf
    OBVIOUS
  <2> DEFINE i == Cardinality(Before(row, leaf)) + 1
  <2>1. i \in 1..n /\ Cardinality(Before(row, leaf)) = i - 1
    BY <1>1, <1>5
  <2> HIDE DEF i
  <2>2. s[i] = leaf
    BY <1>5, <1>10, <2>1
  <2> QED BY <2>1, <2>2
<1>15. \A i \in 1..n : IsLeaf(s[i])
  BY <1>1, <1>2, <1>10
<1>16. {s[i] : i \in 1..n} = R
  BY <1>10, <1>14
<1> QED BY <1>1, <1>11, <1>12, <1>13, <1>15, <1>16 DEF LeafRow, R, s, n

\* The order of arrival does not show.
LEMMA OrderDoesNotShow ==
  ASSUME NEW row, LeafRow(row), NEW other, LeafRow(other), Range(row) = Range(other)
  PROVE  sorted(row) = sorted(other)
<1>1. Len(row) = Len(other) /\ DOMAIN row = DOMAIN other
  BY RowsAreFinite, RowShape DEF LeafRow
<1> QED BY <1>1 DEF sorted

-----------------------------------------------------------------------------
\* The members of an epoch as finalize_epoch arranges them.
MemberRow(members) ==
  /\ Len(members) \in Nat \ {0} /\ members = [i \in 1..Len(members) |-> members[i]]
  /\ \A i \in 1..Len(members) : members[i] \in Devices
  /\ \A i, j \in 1..Len(members) : members[i] = members[j] => i = j

LeafOf(d) == leaf_hash(d, d)

\* A leaf names its device.
LEMMA LeafFields ==
  ASSUME NEW d, NEW e
  PROVE  /\ IsLeaf(LeafOf(d)) /\ LeafOf(d)[2] = d
         /\ LeafOf(d) = LeafOf(e) => d = e
BY DEF LeafOf, IsLeaf, leaf_hash

\* The tree of an epoch, over the leaves of its members in any order.
LEMMA MemberTree ==
  ASSUME NEW members, MemberRow(members)
  PROVE  /\ Tree(TreeOf(members))
         /\ {TreeOf(members)[1][k] : k \in 1..Len(TreeOf(members)[1])}
              = {LeafOf(d) : d \in Range(members)}
         /\ Range(members) \in (SUBSET Devices) \ {{}}
         /\ \A other : MemberRow(other) /\ Range(other) = Range(members) =>
              TreeOf(other) = TreeOf(members)
<1> DEFINE Row(m) == [i \in DOMAIN m |-> LeafOf(m[i])]
<1>1. ASSUME NEW m, MemberRow(m)
      PROVE  /\ Sortable(Row(m)) /\ Range(Row(m)) = {LeafOf(d) : d \in Range(m)}
             /\ DOMAIN m = 1..Len(m)
  <2> DEFINE n == Len(m)
             r == Row(m)
  <2>1. /\ n \in Nat \ {0} /\ m = [i \in 1..n |-> m[i]] /\ DOMAIN m = 1..n
        /\ \A i \in 1..n : m[i] \in Nat
        /\ \A i, j \in 1..n : m[i] = m[j] => i = j
    BY <1>1, RowShape, DevicesAssumption DEF MemberRow
  <2>2. r = [i \in 1..n |-> r[i]] /\ \A i \in 1..n : r[i] = LeafOf(m[i])
    BY <2>1
  <2> HIDE DEF r, n
  <2>3. Len(r) = n /\ DOMAIN r = 1..n
    BY <2>1, <2>2, RowShape
  <2>4. Sortable(r)
    <3>1. \A i \in 1..n : IsLeaf(r[i]) /\ r[i][2] = m[i]
      BY <2>2, LeafFields
    <3>2. \A i, j \in 1..n : r[i] = r[j] => i = j
      BY <2>1, <2>2, LeafFields
    <3> QED BY <2>1, <2>2, <2>3, <3>1, <3>2 DEF Sortable, LeafRow
  <2>5. Range(r) = {LeafOf(d) : d \in Range(m)}
    BY <2>1, <2>2, <2>3 DEF Range
  <2> QED BY <2>1, <2>4, <2>5 DEF r, n
<1>2. \A m : TreeOf(m) = build(sorted(Row(m)))
  BY DEF TreeOf, Levels, LeafOf
<1> HIDE DEF Row
<1>3. LeafRow(sorted(Row(members)))
  BY <1>1, SortedRow
<1>4. Tree(TreeOf(members)) /\ TreeOf(members)[1] = sorted(Row(members))
  BY <1>2, <1>3, BuildsTree
<1>5. {TreeOf(members)[1][k] : k \in 1..Len(TreeOf(members)[1])}
        = {LeafOf(d) : d \in Range(members)}
  <2> DEFINE r == Row(members)
  <2>1. Sortable(r)
    BY <1>1
  <2>2. Len(sorted(r)) = Len(r) /\ {sorted(r)[i] : i \in 1..Len(r)} = Range(r)
    BY <2>1, SortedRow
  <2> QED BY <1>1, <1>4, <2>2
<1>6. Range(members) \in (SUBSET Devices) \ {{}}
  <2>1. \A i \in DOMAIN members : members[i] \in Devices
    BY <1>1 DEF MemberRow
  <2>2. 1 \in DOMAIN members
    BY <1>1 DEF MemberRow
  <2> QED BY <2>1, <2>2 DEF Range
<1>7. ASSUME NEW other, MemberRow(other), Range(other) = Range(members)
      PROVE  TreeOf(other) = TreeOf(members)
  <2>1. Range(Row(other)) = Range(Row(members)) /\ LeafRow(Row(other)) /\ LeafRow(Row(members))
    BY <1>1, <1>7 DEF Sortable
  <2>2. sorted(Row(other)) = sorted(Row(members))
    BY <2>1, OrderDoesNotShow
  <2> QED BY <1>2, <2>2
<1> QED BY <1>4, <1>5, <1>6, <1>7

\* The tree of a set of devices.
TreeFor(S) == TreeOf(SetToSeq(S))

\* A set of devices can be arranged as a row of members.
LEMMA SetRow ==
  ASSUME NEW S \in (SUBSET Devices) \ {{}}
  PROVE  MemberRow(SetToSeq(S)) /\ Range(SetToSeq(S)) = S
<1> DEFINE n == Cardinality(S)
           m == SetToSeq(S)
<1>1. IsFiniteSet(S) /\ n \in Nat \ {0}
  <2>1. IsFiniteSet(S)
    BY DevicesAssumption, FS_Subset
  <2> QED BY <2>1, FS_CardinalityType, FS_EmptySet
<1>2. \E f \in [1..n -> S] : IsInjective(f)
  <2>1. PICK f : f \in Bijection(1..n, S)
    BY <1>1, FS_CardinalityType DEF ExistsBijection
  <2> QED BY <2>1 DEF Bijection, Injection, IsInjective
<1>3. m \in [1..n -> S] /\ IsInjective(m)
  BY <1>2 DEF SetToSeq
<1> HIDE DEF m
<1>4. m \in Injection(1..n, S)
  BY <1>3 DEF Injection
<1>5. Cardinality(1..n) = n /\ IsFiniteSet(1..n)
  <2>1. 1 \in Int /\ n \in Int /\ ~(1 > n) /\ n - 1 + 1 = n
    BY <1>1
  <2>2. /\ IsFiniteSet(1..n)
        /\ Cardinality(1..n) = IF 1 > n THEN 0 ELSE n - 1 + 1
    BY <2>1, FS_Interval, Zenon
  <2> QED BY <2>1, <2>2, Zenon
<1>6. m \in Surjection(1..n, S)
  <2> HIDE DEF n
  <2>1. n = Cardinality(S)
    BY DEF n
  <2> QED BY <1>1, <1>4, <1>5, <2>1, FS_Injection
<1>7. m = [i \in 1..n |-> m[i]] /\ n \in Nat
  BY <1>1, <1>3
<1>8. Len(m) = n /\ DOMAIN m = 1..n
  <2> HIDE DEF n
  <2> QED BY <1>7, RowShape
<1>9. Range(m) = S
  BY <1>3, <1>6, <1>8 DEF Range, Surjection
<1>10. \A i, j \in 1..n : m[i] = m[j] => i = j
  BY <1>3, <1>8 DEF IsInjective
<1> QED BY <1>1, <1>3, <1>7, <1>8, <1>9, <1>10 DEF MemberRow, m

\* What climbs to the root of an epoch: its members' proofs, and nothing else.
LEMMA EpochProofs ==
  ASSUME NEW S \in (SUBSET Devices) \ {{}}
  PROVE  /\ \A d, path : IsPath(path) =>
              (verify_proof(LeafOf(d), path, root(TreeFor(S)))
                 <=> d \in S /\ path = get_proof(TreeFor(S), LeafOf(d)))
         /\ \A d \in S : IsPath(get_proof(TreeFor(S), LeafOf(d)))
<1> DEFINE T == TreeFor(S)
<1>1. /\ Tree(T)
      /\ {T[1][k] : k \in 1..Len(T[1])} = {LeafOf(d) : d \in S}
  BY SetRow, MemberTree DEF TreeFor
<1> HIDE DEF T
<1>2. \A d : (\E k \in 1..Len(T[1]) : T[1][k] = LeafOf(d)) <=> d \in S
  <2> SUFFICES ASSUME NEW d PROVE (\E k \in 1..Len(T[1]) : T[1][k] = LeafOf(d)) <=> d \in S
    OBVIOUS
  <2>1. LeafOf(d) \in {T[1][k] : k \in 1..Len(T[1])} <=> LeafOf(d) \in {LeafOf(e) : e \in S}
    BY <1>1
  <2> QED BY <2>1, LeafFields
<1>3. \A d, path : IsPath(path) =>
        (verify_proof(LeafOf(d), path, root(T))
           <=> d \in S /\ path = get_proof(T, LeafOf(d)))
  BY <1>1, <1>2, ExactlyTheProofs, LeafFields
<1>4. \A d \in S : IsPath(get_proof(T, LeafOf(d)))
  BY <1>1, <1>2, ProofsArePaths
<1> QED BY <1>3, <1>4 DEF T

\* Sets with one root are the same.
LEMMA RootNamesSet ==
  ASSUME NEW S \in (SUBSET Devices) \ {{}}, NEW R \in (SUBSET Devices) \ {{}},
         root(TreeFor(S)) = root(TreeFor(R))
  PROVE  S = R
<1>1. ASSUME NEW A \in (SUBSET Devices) \ {{}}, NEW B \in (SUBSET Devices) \ {{}},
             root(TreeFor(A)) = root(TreeFor(B)), NEW d \in A
      PROVE  d \in B
  <2> DEFINE path == get_proof(TreeFor(A), LeafOf(d))
  <2>1. IsPath(path) /\ verify_proof(LeafOf(d), path, root(TreeFor(A)))
    BY EpochProofs
  <2> HIDE DEF path
  <2> QED BY <1>1, <2>1, EpochProofs
<1> QED BY <1>1

-----------------------------------------------------------------------------
\* The root and the packages of an epoch are those of a set of members.
EpochOf(tops, made, e, S) ==
  /\ tops[e] = root(TreeFor(S))
  /\ {p \in made : p.epoch_id = e} = {build_proof_package(d, TreeFor(S), e) : d \in S}

PackagesInv ==
  /\ Len(roots) \in Nat /\ roots = [e \in 1..Len(roots) |-> roots[e]]
  /\ DOMAIN status = Devices
  /\ batch \subseteq {d \in Devices : status[d] = "PENDING"}
  /\ \A p \in packages : p.epoch_id \in 1..Len(roots)
  /\ \A e \in 1..Len(roots) : \E S \in (SUBSET Devices) \ {{}} : EpochOf(roots, packages, e, S)

\* What finalize_epoch collects is a row of members.
LEMMA MembersRow ==
  ASSUME PackagesInv, NEW blocked, NEW members \in Members(blocked), members # <<>>
  PROVE  MemberRow(members)
<1> DEFINE A == {d \in Devices \ blocked : status[d] = "REGISTERED"}
           B == batch \ blocked
<1>1. /\ A \subseteq Devices /\ B \subseteq Devices /\ A \cap B = {}
  BY DEF PackagesInv
<1>2. PICK a \in SetToSeqs(A), b \in SetToSeqs(B) : members = a \o b
  <2> DEFINE SA == SetToSeqs(A)
             SB == SetToSeqs(B)
  <2>1. Members(blocked) = {carried \o new : carried \in SA, new \in SB}
    BY DEF Members
  <2> HIDE DEF SA, SB
  <2>2. \E a \in SA, b \in SB : members = a \o b
    BY <2>1, SMT
  <2> QED BY <2>2 DEF SA, SB
<1> DEFINE m == Cardinality(A)
           n == Cardinality(B)
<1>3. m \in Nat /\ n \in Nat
  <2>1. IsFiniteSet(A) /\ IsFiniteSet(B)
    BY <1>1, DevicesAssumption, FS_Subset
  <2> QED BY <2>1, FS_CardinalityType
<1>4. /\ a \in [1..m -> A] /\ \A i, j \in 1..m : i # j => a[i] # a[j]
      /\ b \in [1..n -> B] /\ \A i, j \in 1..n : i # j => b[i] # b[j]
  BY <1>2 DEF SetToSeqs
<1> HIDE DEF A, B, m, n
<1>5. a \in Seq(Devices) /\ b \in Seq(Devices) /\ Len(a) = m /\ Len(b) = n
  <2>1. a \in [1..m -> Devices] /\ b \in [1..n -> Devices]
    BY <1>1, <1>4
  <2> QED BY <1>3, <2>1
<1>6. /\ members \in Seq(Devices) /\ Len(members) = m + n
      /\ \A i \in 1..(m + n) : members[i] = IF i <= m THEN a[i] ELSE b[i - m]
  <2>1. a \o b \in Seq(Devices) /\ Len(a \o b) = Len(a) + Len(b)
    BY <1>5
  <2>2. \A i \in 1..(Len(a) + Len(b)) :
          (a \o b)[i] = IF i <= Len(a) THEN a[i] ELSE b[i - Len(a)]
    BY <1>5
  <2> QED BY <1>2, <1>5, <2>1, <2>2
<1>7. m + n \in Nat \ {0}
  BY <1>3, <1>6
<1>8. members = [i \in 1..(m + n) |-> members[i]] /\ \A i \in 1..(m + n) : members[i] \in Devices
  BY <1>6
<1>9. ASSUME NEW i \in 1..(m + n), NEW j \in 1..(m + n), i < j
      PROVE  members[i] # members[j]
  <2>1. CASE j <= m
    <3>1. i \in 1..m /\ j \in 1..m
      BY <1>3, <1>9, <2>1
    <3> QED BY <1>4, <1>6, <1>9, <2>1, <3>1
  <2>2. CASE ~(i <= m)
    <3>1. i - m \in 1..n /\ j - m \in 1..n /\ i - m # j - m /\ ~(j <= m)
      BY <1>3, <1>9, <2>2
    <3> QED BY <1>4, <1>6, <2>2, <3>1
  <2>3. CASE i <= m /\ ~(j <= m)
    <3>1. i \in 1..m /\ j - m \in 1..n
      BY <1>3, <2>3
    <3>2. a[i] \in A /\ b[j - m] \in B
      BY <1>4, <3>1
    <3>3. members[i] \in A /\ members[j] \in B
      BY <1>6, <2>3, <3>2
    <3> QED BY <1>1, <3>3
  <2>4. j <= m \/ ~(i <= m) \/ (i <= m /\ ~(j <= m))
    OBVIOUS
  <2> QED BY <2>1, <2>2, <2>3, <2>4
<1>10. \A i, j \in 1..(m + n) : members[i] = members[j] => i = j
  <2> SUFFICES ASSUME NEW i \in 1..(m + n), NEW j \in 1..(m + n), i # j
               PROVE  members[i] # members[j]
    OBVIOUS
  <2>1. i < j \/ j < i
    BY <1>3
  <2> QED BY <1>9, <2>1
<1> QED BY <1>6, <1>7, <1>8, <1>10 DEF MemberRow

\* The fields of the package that the fog makes for a device.
LEMMA PackageFields ==
  ASSUME NEW d, NEW tree, NEW e
  PROVE  LET p == build_proof_package(d, tree, e)
         IN  /\ p.did = d /\ p.public_key = d /\ p.leaf = LeafOf(d) /\ p.epoch_id = e
             /\ p.root = root(tree) /\ p.proof_path = get_proof(tree, LeafOf(d))
             /\ p.fog_signature = package_message(d, LeafOf(d), root(tree), e)
BY DEF build_proof_package, LeafOf

\* Nothing has been rooted at the start.
LEMMA PackagesInit == Init => PackagesInv
BY DEF Init, PackagesInv

\* What finalize_epoch makes: a tree over a set of members, the next root, and a
\* package for each of them.
Closing(S) ==
  LET e == Len(roots) + 1
  IN  /\ S \in (SUBSET Devices) \ {{}} /\ Len(roots) \in Nat
      /\ Len(roots') = e /\ roots' = [i \in 1..e |-> roots'[i]]
      /\ roots'[e] = root(TreeFor(S)) /\ \A i \in 1..Len(roots) : roots'[i] = roots[i]
      /\ packages' = packages \cup {build_proof_package(d, TreeFor(S), e) : d \in S}
      /\ status' = [d \in Devices |-> IF d \in S THEN "REGISTERED" ELSE status[d]]
      /\ batch' = {}

LEMMA ClosesEpoch ==
  ASSUME PackagesInv, NEW blocked, NEW members \in Members(blocked), finalize_epoch(members)
  PROVE  Closing(Range(members))
<1> DEFINE n == Len(roots)
           tree == TreeOf(members)
           S == Range(members)
<1>1. MemberRow(members)
  BY MembersRow DEF finalize_epoch
<1>2. S \in (SUBSET Devices) \ {{}} /\ TreeFor(S) = tree
  <2>1. S \in (SUBSET Devices) \ {{}}
    BY <1>1, MemberTree
  <2>2. MemberRow(SetToSeq(S)) /\ Range(SetToSeq(S)) = S
    BY <2>1, SetRow
  <2> QED BY <1>1, <2>1, <2>2, MemberTree DEF TreeFor
<1>3. /\ roots' = Append(roots, root(tree))
      /\ packages' = packages \cup {build_proof_package(d, tree, n + 1) : d \in S}
      /\ status' = [d \in Devices |-> IF d \in S THEN "REGISTERED" ELSE status[d]]
      /\ batch' = {}
  BY DEF finalize_epoch
<1>4. n \in Nat /\ roots = [e \in 1..n |-> roots[e]]
  BY DEF PackagesInv
<1> HIDE DEF n, tree, S
<1>5. /\ Len(roots') = n + 1 /\ roots' = [e \in 1..(n + 1) |-> roots'[e]]
      /\ roots'[n + 1] = root(tree) /\ \A e \in 1..n : roots'[e] = roots[e]
  <2> DEFINE R == {roots[e] : e \in 1..n} \cup {root(tree)}
  <2>1. roots \in [1..n -> R] /\ root(tree) \in R
    BY <1>4
  <2> HIDE DEF R
  <2>2. roots \in Seq(R) /\ Len(roots) = n
    BY <1>4, <2>1 DEF n
  <2> QED BY <1>3, <1>4, <2>1, <2>2
<1> QED BY <1>2, <1>3, <1>4, <1>5 DEF Closing, n, S

\* finalize_epoch adds an epoch and leaves the earlier ones alone.
LEMMA PackagesStep == PackagesInv /\ [Next]_<<status, batch, roots, packages>> => PackagesInv'
<1> SUFFICES ASSUME PackagesInv, [Next]_<<status, batch, roots, packages>>
             PROVE  PackagesInv'
  OBVIOUS
<1>1. CASE UNCHANGED <<status, batch, roots, packages>>
  BY <1>1 DEF PackagesInv, EpochOf
<1>2. ASSUME NEW d \in Devices, add_leaf(d) PROVE PackagesInv'
  BY <1>2 DEF add_leaf, PackagesInv, EpochOf
<1>3. ASSUME NEW blocked, NEW members \in Members(blocked), finalize_epoch(members)
      PROVE  PackagesInv'
  <2> DEFINE n == Len(roots)
             S == Range(members)
             tree == TreeFor(S)
             new == {build_proof_package(d, tree, n + 1) : d \in S}
  <2>1. Closing(S)
    BY <1>3, ClosesEpoch
  <2>2. S \in (SUBSET Devices) \ {{}} /\ n \in Nat
    BY <2>1 DEF Closing
  <2>3. /\ packages' = packages \cup new
        /\ status' = [d \in Devices |-> IF d \in S THEN "REGISTERED" ELSE status[d]]
        /\ batch' = {}
    BY <2>1 DEF Closing
  <2>4. /\ Len(roots') = n + 1 /\ roots' = [e \in 1..(n + 1) |-> roots'[e]]
        /\ roots'[n + 1] = root(tree) /\ \A e \in 1..n : roots'[e] = roots[e]
    BY <2>1 DEF Closing
  <2> HIDE DEF n, tree, S, new
  <2>5. \A p \in packages : p.epoch_id \in 1..n
    BY DEF PackagesInv, n
  <2>6. \A p \in new : p.epoch_id = n + 1
    BY PackageFields DEF new
  <2>7. \A p \in packages' : p.epoch_id \in 1..(n + 1)
    BY <2>2, <2>3, <2>5, <2>6
  <2>8. EpochOf(roots', packages', n + 1, S)
    <3>1. {p \in packages' : p.epoch_id = n + 1} = new
      BY <2>2, <2>3, <2>5, <2>6
    <3>2. roots'[n + 1] = root(TreeFor(S))
      BY <2>4 DEF tree
    <3>3. new = {build_proof_package(d, TreeFor(S), n + 1) : d \in S}
      BY DEF new, tree
    <3> QED BY <3>1, <3>2, <3>3 DEF EpochOf
  <2>9. ASSUME NEW e \in 1..n PROVE \E R \in (SUBSET Devices) \ {{}} : EpochOf(roots', packages', e, R)
    <3>1. PICK R \in (SUBSET Devices) \ {{}} : EpochOf(roots, packages, e, R)
      BY DEF PackagesInv, n
    <3>2. {p \in packages' : p.epoch_id = e} = {p \in packages : p.epoch_id = e}
      BY <2>2, <2>3, <2>6
    <3>3. roots'[e] = roots[e]
      BY <2>4
    <3>4. EpochOf(roots', packages', e, R)
      BY <3>1, <3>2, <3>3 DEF EpochOf
    <3> QED BY <3>4
  <2>10. \A e \in 1..(n + 1) : \E R \in (SUBSET Devices) \ {{}} : EpochOf(roots', packages', e, R)
    <3> SUFFICES ASSUME NEW e \in 1..(n + 1)
                 PROVE  \E R \in (SUBSET Devices) \ {{}} : EpochOf(roots', packages', e, R)
      OBVIOUS
    <3>1. e \in 1..n \/ e = n + 1
      BY <2>2
    <3> QED BY <2>2, <2>8, <2>9, <3>1
  <2>11. Len(roots') \in Nat /\ roots' = [e \in 1..Len(roots') |-> roots'[e]]
    BY <2>2, <2>4
  <2>12. DOMAIN status' = Devices
    BY <2>3
  <2>13. batch' \subseteq {d \in Devices : status'[d] = "PENDING"}
    BY <2>3
  <2>14. \A p \in packages' : p.epoch_id \in 1..Len(roots')
    BY <2>4, <2>7
  <2>15. \A e \in 1..Len(roots') : \E R \in (SUBSET Devices) \ {{}} : EpochOf(roots', packages', e, R)
    BY <2>4, <2>10
  <2> QED BY <2>11, <2>12, <2>13, <2>14, <2>15 DEF PackagesInv
<1> QED BY <1>1, <1>2, <1>3 DEF Next, close_batch

\* Every epoch ever closed is that of a set of members.
LEMMA PackagesInvariant == Spec => []PackagesInv
BY PackagesInit, PackagesStep, PTL DEF Spec

-----------------------------------------------------------------------------
\* Rooted holds every set of devices with its root.
LEMMA RootedFields ==
  /\ \A r \in Rooted :
       r.members \in (SUBSET Devices) \ {{}} /\ r.root = root(TreeFor(r.members))
  /\ \A S \in (SUBSET Devices) \ {{}} :
       \E r \in Rooted : r.members = S /\ r.root = root(TreeFor(S))
<1> DEFINE top(S) == root(TreeFor(S))
<1>1. Rooted = {[members |-> S, root |-> top(S)] : S \in (SUBSET Devices) \ {{}}}
  BY DEF Rooted, TreeFor
<1> HIDE DEF top
<1>2. ASSUME NEW r \in Rooted
      PROVE  r.members \in (SUBSET Devices) \ {{}} /\ r.root = top(r.members)
  BY <1>1
<1>3. ASSUME NEW S \in (SUBSET Devices) \ {{}}
      PROVE  \E r \in Rooted : r.members = S /\ r.root = top(S)
  <2>1. [members |-> S, root |-> top(S)] \in Rooted
    BY <1>1
  <2> QED BY <2>1
<1> QED BY <1>2, <1>3 DEF top

-----------------------------------------------------------------------------
\* The latest packages are those of a set of members, under its root.
LatestOf(S) == Latest = {build_proof_package(d, TreeFor(S), Len(roots)) : d \in S}

\* The last epoch is one of them.
LEMMA LatestEpoch ==
  ASSUME PackagesInv, roots # <<>>
  PROVE  \E S \in (SUBSET Devices) \ {{}} :
           /\ Last(roots) = root(TreeFor(S))
           /\ LatestOf(S)
<1> DEFINE n == Len(roots)
<1>1. n \in Nat /\ roots = [e \in 1..n |-> roots[e]]
  BY DEF PackagesInv
<1>2. n # 0
  <2> SUFFICES ASSUME n = 0 PROVE roots = <<>>
    OBVIOUS
  <2> HIDE DEF n
  <2>1. 1..n = {}
    OBVIOUS
  <2> QED BY <1>1, <2>1
<1>3. n \in 1..n
  BY <1>1, <1>2
<1>4. PICK S \in (SUBSET Devices) \ {{}} : EpochOf(roots, packages, n, S)
  BY <1>3 DEF PackagesInv
<1> QED BY <1>4 DEF EpochOf, LatestOf, Latest, Last

\* Their leaves and paths are those of the members.
LEMMA LatestLeaves ==
  ASSUME NEW S, LatestOf(S)
  PROVE  /\ {p.did : p \in Latest} = S
         /\ {<<p.leaf, p.proof_path>> : p \in Latest}
              = {<<LeafOf(d), get_proof(TreeFor(S), LeafOf(d))>> : d \in S}
         /\ {p.proof_path : p \in Latest} = {get_proof(TreeFor(S), LeafOf(d)) : d \in S}
<1> DEFINE made(d) == build_proof_package(d, TreeFor(S), Len(roots))
           its(d) == get_proof(TreeFor(S), LeafOf(d))
<1>1. \A d : made(d).did = d /\ made(d).leaf = LeafOf(d) /\ made(d).proof_path = its(d)
  BY PackageFields
<1>2. Latest = {made(d) : d \in S}
  BY DEF LatestOf
<1> HIDE DEF made, its
<1>3. \A d \in S : made(d) \in Latest
  BY <1>2
<1>4. \A p \in Latest : \E d \in S : p = made(d)
  BY <1>2
<1>5. {p.did : p \in Latest} = S
  <2>1. ASSUME NEW d \in S PROVE d \in {p.did : p \in Latest}
    <3>1. made(d) \in Latest /\ made(d).did = d
      BY <1>1, <1>3
    <3> QED BY <3>1
  <2>2. ASSUME NEW p \in Latest PROVE p.did \in S
    BY <1>1, <1>4
  <2> QED BY <2>1, <2>2
<1>6. {p.proof_path : p \in Latest} = {its(d) : d \in S}
  <2>1. ASSUME NEW d \in S PROVE its(d) \in {p.proof_path : p \in Latest}
    <3>1. made(d) \in Latest /\ made(d).proof_path = its(d)
      BY <1>1, <1>3
    <3> QED BY <3>1
  <2>2. ASSUME NEW p \in Latest PROVE p.proof_path \in {its(d) : d \in S}
    BY <1>1, <1>4
  <2> QED BY <2>1, <2>2
<1>7. {<<p.leaf, p.proof_path>> : p \in Latest} = {<<LeafOf(d), its(d)>> : d \in S}
  <2>1. ASSUME NEW d \in S PROVE <<LeafOf(d), its(d)>> \in {<<p.leaf, p.proof_path>> : p \in Latest}
    <3>1. made(d) \in Latest /\ <<made(d).leaf, made(d).proof_path>> = <<LeafOf(d), its(d)>>
      BY <1>1, <1>3
    <3> QED BY <3>1
  <2>2. ASSUME NEW p \in Latest PROVE <<p.leaf, p.proof_path>> \in {<<LeafOf(d), its(d)>> : d \in S}
    <3>1. PICK d \in S : p = made(d)
      BY <1>4
    <3> QED BY <1>1, <3>1
  <2> QED BY <2>1, <2>2
<1> QED BY <1>5, <1>6, <1>7 DEF its

\* Every path that OnlyItsProofVerifies tries is one for reconstruct_root.
LEMMA PathsArePaths ==
  ASSUME NEW S \in (SUBSET Devices) \ {{}},
         LatestOf(S),
         NEW path \in Paths
  PROVE  IsPath(path)
<1> DEFINE given == {p.proof_path : p \in Latest}
           nodes == Leaves \cup {step.sibling : step \in UNION {Range(g) : g \in given}}
           steps == [sibling : nodes, side : {"L", "R", "?"}]
<1>1. \A g \in given : IsPath(g)
  <2>1. given = {get_proof(TreeFor(S), LeafOf(d)) : d \in S}
    BY LatestLeaves
  <2>2. \A d \in S : IsPath(get_proof(TreeFor(S), LeafOf(d)))
    BY EpochProofs
  <2> HIDE DEF given
  <2> QED BY <2>1, <2>2
<1>2. PICK n \in {0} \cup UNION {DOMAIN g : g \in given} : path \in [1..n -> steps]
  <2>1. path \in UNION {[1..n -> steps] : n \in {0} \cup UNION {DOMAIN g : g \in given}}
    BY DEF Paths
  <2> HIDE DEF given, steps
  <2> QED BY <2>1
<1> HIDE DEF given
<1>3. n \in Nat
  <2>1. CASE n = 0
    BY <2>1
  <2>2. ASSUME NEW g \in given, n \in DOMAIN g PROVE n \in Nat
    <3>1. DOMAIN g = 1..Len(g) /\ Len(g) \in Nat
      BY <1>1 DEF IsPath
    <3> QED BY <2>2, <3>1
  <2>3. n = 0 \/ \E g \in given : n \in DOMAIN g
    BY <1>2
  <2> QED BY <2>1, <2>2, <2>3
<1>4. \A i \in 1..n : IsStep(path[i])
  <2> SUFFICES ASSUME NEW i \in 1..n PROVE IsStep(path[i])
    OBVIOUS
  <2>1. path[i] \in steps
    BY <1>2
  <2> HIDE DEF nodes
  <2> QED BY <2>1 DEF IsStep
<1>5. path = [i \in 1..n |-> path[i]]
  BY <1>2
<1>6. Len(path) = n
  BY <1>3, <1>5, RowShape
<1> QED BY <1>3, <1>4, <1>5, <1>6 DEF IsPath

\* The latest root is the one of its members, and RootNamesSet does the rest.
LEMMA RootIsTheSetOf == PackagesInv => RootIsTheSet
<1> SUFFICES ASSUME PackagesInv, roots # <<>>, NEW r \in Rooted
             PROVE  r.root = Last(roots) <=> r.members = {p.did : p \in Latest}
  BY DEF RootIsTheSet
<1>1. PICK S \in (SUBSET Devices) \ {{}} : Last(roots) = root(TreeFor(S)) /\ LatestOf(S)
  BY LatestEpoch
<1>2. {p.did : p \in Latest} = S
  BY <1>1, LatestLeaves
<1>3. r.members \in (SUBSET Devices) \ {{}} /\ r.root = root(TreeFor(r.members))
  BY RootedFields
<1>4. root(TreeFor(r.members)) = root(TreeFor(S)) <=> r.members = S
  BY <1>3, RootNamesSet
<1> QED BY <1>1, <1>2, <1>3, <1>4

\* The paths that pass for the latest root are those in its packages.
LEMMA OnlyItsProofVerifiesOf == PackagesInv => OnlyItsProofVerifies
<1> SUFFICES ASSUME PackagesInv, roots # <<>>, NEW leaf \in Leaves, NEW path \in Paths
             PROVE  verify_proof(leaf, path, Last(roots))
                      <=> <<leaf, path>> \in {<<p.leaf, p.proof_path>> : p \in Latest}
  BY DEF OnlyItsProofVerifies
<1>1. PICK S \in (SUBSET Devices) \ {{}} :
        /\ Last(roots) = root(TreeFor(S))
        /\ LatestOf(S)
  BY LatestEpoch
<1>2. PICK d \in Devices : leaf = LeafOf(d)
  BY DEF Leaves, LeafOf
<1>3. IsPath(path)
  BY <1>1, PathsArePaths
<1>4. verify_proof(LeafOf(d), path, root(TreeFor(S)))
        <=> d \in S /\ path = get_proof(TreeFor(S), LeafOf(d))
  BY <1>3, EpochProofs
<1>5. <<LeafOf(d), path>> \in {<<LeafOf(e), get_proof(TreeFor(S), LeafOf(e))>> : e \in S}
        <=> d \in S /\ path = get_proof(TreeFor(S), LeafOf(d))
  BY LeafFields
<1>6. {<<p.leaf, p.proof_path>> : p \in Latest}
        = {<<LeafOf(e), get_proof(TreeFor(S), LeafOf(e))>> : e \in S}
  BY <1>1, LatestLeaves
<1> QED BY <1>1, <1>2, <1>4, <1>5, <1>6

-----------------------------------------------------------------------------
\* A package that a verifier may be shown: any fields, any path, and a
\* signature that the fog has made for some package.
PackageShape(q) ==
  q = [did |-> q.did, public_key |-> q.public_key, leaf |-> q.leaf, epoch_id |-> q.epoch_id,
       root |-> q.root, proof_path |-> q.proof_path, fog_signature |-> q.fog_signature]

Presentable(q) ==
  /\ PackageShape(q) /\ IsPath(q.proof_path)
  /\ q.fog_signature \in {p.fog_signature : p \in packages}

\* A verifier accepts, of all that it can be shown, the packages of the fog and
\* nothing else (proof_package.py verify_proof_package).
EachIsJudged ==
  \A q : Presentable(q) => (verify_proof_package(q) <=> q \in packages)

\* The package of a member of an epoch.
MadeFor(p, d, S, e) ==
  /\ e \in 1..Len(roots) /\ roots[e] = root(TreeFor(S)) /\ d \in S
  /\ p = build_proof_package(d, TreeFor(S), e)

\* Every package was made for a member of a closed epoch.
LEMMA EachIsMadeFor ==
  ASSUME PackagesInv, NEW p \in packages
  PROVE  \E S \in (SUBSET Devices) \ {{}} : \E d, e : MadeFor(p, d, S, e)
<1> DEFINE e == p.epoch_id
<1>1. e \in 1..Len(roots)
  BY DEF PackagesInv
<1>2. PICK S \in (SUBSET Devices) \ {{}} : EpochOf(roots, packages, e, S)
  BY <1>1 DEF PackagesInv
<1>3. p \in {q \in packages : q.epoch_id = e}
  OBVIOUS
<1> HIDE DEF e
<1>4. PICK d \in S : p = build_proof_package(d, TreeFor(S), e)
  BY <1>2, <1>3 DEF EpochOf
<1> QED BY <1>1, <1>2, <1>4 DEF MadeFor, EpochOf

\* The package that the fog makes has the fields of one.
LEMMA ShapeOfMade ==
  ASSUME NEW d, NEW tree, NEW e
  PROVE  PackageShape(build_proof_package(d, tree, e))
BY DEF PackageShape, build_proof_package

\* A package of the fog can itself be shown.
LEMMA EachIsPresentable ==
  ASSUME PackagesInv, NEW p \in packages
  PROVE  Presentable(p)
<1>1. PICK S \in (SUBSET Devices) \ {{}} : \E d, e : MadeFor(p, d, S, e)
  BY EachIsMadeFor
<1>2. PICK d, e : MadeFor(p, d, S, e)
  BY <1>1
<1>3. PackageShape(p)
  BY <1>2, ShapeOfMade DEF MadeFor
<1>4. IsPath(p.proof_path)
  <2>1. p.proof_path = get_proof(TreeFor(S), LeafOf(d)) /\ d \in S
    BY <1>2, PackageFields DEF MadeFor
  <2> QED BY <2>1, EpochProofs
<1> QED BY <1>3, <1>4 DEF Presentable

\* The signature fixes all of a package but its path and its key; the leaf fixes
\* the key and the root the path.
LEMMA Judged == PackagesInv => EachIsJudged
<1> SUFFICES ASSUME PackagesInv, NEW q, Presentable(q)
             PROVE  verify_proof_package(q) <=> q \in packages
  BY DEF EachIsJudged
<1>1. DOMAIN roots = 1..Len(roots)
  BY DEF PackagesInv
<1>2. ASSUME q \in packages PROVE verify_proof_package(q)
  <2>1. PICK S \in (SUBSET Devices) \ {{}} : \E d, e : MadeFor(q, d, S, e)
    BY <1>2, EachIsMadeFor
  <2>2. PICK d, e : MadeFor(q, d, S, e)
    BY <2>1
  <2> DEFINE path == get_proof(TreeFor(S), LeafOf(d))
             top == root(TreeFor(S))
  <2>3. /\ q.did = d /\ q.public_key = d /\ q.leaf = LeafOf(d) /\ q.epoch_id = e
        /\ q.root = top /\ q.proof_path = path
        /\ q.fog_signature = package_message(d, LeafOf(d), top, e)
    BY <2>2, PackageFields DEF MadeFor
  <2>4. e \in DOMAIN roots /\ roots[e] = top /\ d \in S
    BY <1>1, <2>2 DEF MadeFor
  <2>5. verify_proof(LeafOf(d), path, top)
    BY <2>4, EpochProofs
  <2> HIDE DEF path, top
  <2> QED BY <2>3, <2>4, <2>5 DEF verify_proof_package, IdentityCheck, SignatureCheck, LeafOf
<1>3. ASSUME verify_proof_package(q) PROVE q \in packages
  <2>1. PICK p \in packages : q.fog_signature = p.fog_signature
    BY DEF Presentable
  <2>2. PICK S \in (SUBSET Devices) \ {{}} : \E d, e : MadeFor(p, d, S, e)
    BY EachIsMadeFor
  <2>3. PICK d, e : MadeFor(p, d, S, e)
    BY <2>2
  <2> DEFINE path == get_proof(TreeFor(S), LeafOf(d))
             top == root(TreeFor(S))
  <2>4. /\ p.did = d /\ p.public_key = d /\ p.leaf = LeafOf(d) /\ p.epoch_id = e
        /\ p.root = top /\ p.proof_path = path
        /\ p.fog_signature = package_message(d, LeafOf(d), top, e)
    BY <2>3, PackageFields DEF MadeFor
  <2>5. roots[e] = top /\ d \in S
    BY <2>3 DEF MadeFor
  <2>6. package_message(q.did, q.leaf, q.root, q.epoch_id) = package_message(d, LeafOf(d), top, e)
    <3> HIDE DEF top
    <3> QED BY <1>3, <2>1, <2>4 DEF verify_proof_package, SignatureCheck
  <2>7. q.did = d /\ q.leaf = LeafOf(d) /\ q.root = top /\ q.epoch_id = e
    <3> HIDE DEF top
    <3> QED BY <2>6 DEF package_message
  <2>8. q.public_key = d
    BY <1>3, <2>7 DEF verify_proof_package, IdentityCheck, LeafOf, leaf_hash
  <2>9. q.proof_path = path
    <3>1. verify_proof(LeafOf(d), q.proof_path, top)
      BY <1>3, <2>5, <2>7 DEF verify_proof_package
    <3>2. IsPath(q.proof_path)
      BY DEF Presentable
    <3> QED BY <3>1, <3>2, EpochProofs
  <2>10. PackageShape(p) /\ PackageShape(q)
    BY EachIsPresentable DEF Presentable
  <2> HIDE DEF path, top
  <2>11. p = q
    BY <2>1, <2>4, <2>7, <2>8, <2>9, <2>10 DEF PackageShape
  <2> QED BY <2>11
<1> QED BY <1>2, <1>3

\* Exchanging fields leaves a package.
LEMMA Exchanged ==
  ASSUME NEW p, PackageShape(p), NEW d, NEW k, NEW leaf, NEW by
  PROVE  /\ LET q == WithIdentity(p, d, k, leaf)
            IN  PackageShape(q) /\ q.proof_path = p.proof_path /\ q.fog_signature = p.fog_signature
         /\ LET q == Resigned(p, by)
            IN  PackageShape(q) /\ q.proof_path = p.proof_path /\ q.fog_signature = by.fog_signature
<1>1. WithIdentity(p, d, k, leaf)
        = [[[p EXCEPT !.did = d] EXCEPT !.public_key = k] EXCEPT !.leaf = leaf]
  BY DEF PackageShape, WithIdentity
<1>2. Resigned(p, by)
        = [[p EXCEPT !.fog_signature = by.fog_signature] EXCEPT !.epoch_id = by.epoch_id]
  BY DEF PackageShape, Resigned
<1> QED BY <1>1, <1>2 DEF PackageShape

\* Everything that OnlyIssuedVerifies tries can be shown.
LEMMA AllPresentable ==
  ASSUME PackagesInv, NEW p \in packages, NEW q \in Altered(p)
  PROVE  Presentable(q)
<1>1. \A r \in packages : PackageShape(r) /\ IsPath(r.proof_path)
  BY EachIsPresentable DEF Presentable
<1> DEFINE Like(a, b) == PackageShape(q) /\ q.proof_path = a.proof_path /\ q.fog_signature = b.fog_signature
<1>2. ASSUME NEW a \in packages, NEW b \in packages, Like(a, b) PROVE Presentable(q)
  BY <1>1, <1>2 DEF Presentable
<1>3. \/ \E d, k, leaf : q = WithIdentity(p, d, k, leaf)
      \/ \E e : q = [p EXCEPT !.epoch_id = e]
      \/ \E top : q = [p EXCEPT !.root = top]
      \/ \E r \in packages : q = [p EXCEPT !.proof_path = r.proof_path]
      \/ \E r \in packages : q = [p EXCEPT !.fog_signature = r.fog_signature]
      \/ \E r \in packages : q = Resigned(r, p)
  BY DEF Altered
<1>4. ASSUME NEW d, NEW k, NEW leaf, q = WithIdentity(p, d, k, leaf) PROVE Like(p, p)
  BY <1>1, <1>4, Exchanged
<1>5. ASSUME NEW e, q = [p EXCEPT !.epoch_id = e] PROVE Like(p, p)
  BY <1>1, <1>5 DEF PackageShape
<1>6. ASSUME NEW top, q = [p EXCEPT !.root = top] PROVE Like(p, p)
  BY <1>1, <1>6 DEF PackageShape
<1>7. ASSUME NEW r \in packages, q = [p EXCEPT !.proof_path = r.proof_path] PROVE Like(r, p)
  BY <1>1, <1>7 DEF PackageShape
<1>8. ASSUME NEW r \in packages, q = [p EXCEPT !.fog_signature = r.fog_signature] PROVE Like(p, r)
  BY <1>1, <1>8 DEF PackageShape
<1>9. ASSUME NEW r \in packages, q = Resigned(r, p) PROVE Like(r, p)
  BY <1>1, <1>9, Exchanged
<1> HIDE DEF Like
<1> QED BY <1>2, <1>3, <1>4, <1>5, <1>6, <1>7, <1>8, <1>9

\* So what was altered verifies only if it is again a package of the fog.
LEMMA OnlyIssuedVerifiesOf == PackagesInv => OnlyIssuedVerifies
BY AllPresentable, Judged DEF OnlyIssuedVerifies, EachIsJudged

-----------------------------------------------------------------------------
\* The root of an epoch stands for the set of its members, in whatever order they
\* were stored and arrived, and no other set of devices has it.
THEOREM RootStandsForSet == Spec => []RootIsTheSet
BY PackagesInvariant, RootIsTheSetOf, PTL

\* Against the latest root verify_proof accepts for each leaf the path that its
\* package carries, and no other path that can be put together from the siblings.
THEOREM ProofsAreUnique == Spec => []OnlyItsProofVerifies
BY PackagesInvariant, OnlyItsProofVerifiesOf, PTL

\* verify_proof_package accepts what the fog has made and nothing else, for every
\* package with any identity, leaf, root, epoch and path under a signature that
\* the fog has made for some package, now and after any later epoch.
THEOREM VerdictsAreExact == Spec => []EachIsJudged
BY PackagesInvariant, Judged, PTL

\* In particular no alteration of a package verifies, unless it is a package too.
THEOREM AlterationsFail == Spec => []OnlyIssuedVerifies
BY PackagesInvariant, OnlyIssuedVerifiesOf, PTL
=============================================================================
