------------------------------ MODULE AvlProofs ------------------------------
(***************************************************************************)
(* What AvlTree says of the Merkle AVL tree, proved for every finite set   *)
(* of keys and every sequence of insertions and removals: the tree is a    *)
(* map (TreeIsMap), its cached heights and hashes are fresh                *)
(* (CachesAreFresh), every proof it gives verifies (ProofsAlwaysVerify)    *)
(* and insertions keep it balanced (InsertionKeepsBalance).                *)
(*                                                                         *)
(* The proofs go by induction over trees, as a set of trees that has the   *)
(* empty one and, with its two children, a node (ForestInduction).  A tree *)
(* in Avl has its keys in order and its caches fresh in every node;        *)
(* Entries is what it stands for.  One lemma for each operation of the     *)
(* code says what it makes of the entries of a tree in Avl (GetLemma,      *)
(* InsertLemma, RemoveLemma, ..., GetProofLemma).  The inductive invariant *)
(* AvlInv says that the tree is in Avl and its entries are those of the    *)
(* map.  Only balance needs more: Grown says how an insertion may change   *)
(* the height of a subtree, which makes one rotation enough.               *)
(***************************************************************************)
EXTENDS AvlTree, SharedLemmas

-----------------------------------------------------------------------------
(* The recursive definitions of AvlTree define what they say. *)

\* The hashes at one depth, given Digests for smaller depths; f holds those to depth n.
DigestStep(f, d) ==
  IF d = 0 THEN {EmptyChild}
  ELSE {EmptyChild} \cup (f[d - 1] \X (Keys \X Vals) \X f[d - 1])

DigestsUpto(f, n) == f = [d \in 0 .. n |-> DigestStep(f, d)]

\* A set of hashes that DigestsUpto describes, at one depth.
LEMMA DigestsUptoAt ==
  ASSUME NEW n \in Nat, NEW f, DigestsUpto(f, n), NEW d \in Nat, d <= n
  PROVE  f[d] = DigestStep(f, d)
<1>1. d \in 0 .. n
  OBVIOUS
<1> QED BY <1>1 DEF DigestsUpto

\* There are such f, which agree: Digests is what its definition says.
LEMMA DigestsUnfold == \A d \in Nat : Digests[d] = DigestStep(Digests, d)
<1> DEFINE P == {n \in Nat : \E f : DigestsUpto(f, n)}
           Q == {n \in Nat : \A f, g : \A i, j \in Nat :
                   n <= i /\ n <= j /\ DigestsUpto(f, i) /\ DigestsUpto(g, j) => f[n] = g[n]}
<1>1. 0 \in P
  <2> DEFINE f == [d \in 0 .. 0 |-> {EmptyChild}]
  <2>1. DigestsUpto(f, 0)
    BY DEF DigestStep, DigestsUpto
  <2> QED BY <2>1
<1>2. ASSUME NEW n \in Nat, n \in P PROVE n + 1 \in P
  <2>1. PICK f : DigestsUpto(f, n)
    BY <1>2
  <2> DEFINE h == [d \in 0 .. n + 1 |-> DigestStep(f, d)]
  <2>2. \A d \in 0 .. n : d \in 0 .. n + 1 /\ h[d] = f[d]
    BY <2>1 DEF DigestsUpto
  <2>3. \A d \in 0 .. n + 1 : DigestStep(f, d) = DigestStep(h, d)
    <3>1. \A d \in 0 .. n + 1 : d # 0 => d - 1 \in 0 .. n
      OBVIOUS
    <3> HIDE DEF h
    <3> QED BY <2>2, <3>1 DEF DigestStep
  <2>4. DigestsUpto(h, n + 1)
    BY <2>3 DEF DigestsUpto
  <2> HIDE DEF h
  <2> QED BY <2>4
<1>3. Nat \subseteq P
  <2> HIDE DEF P
  <2> QED BY <1>1, <1>2, NatSetInduction
<1>4. 0 \in Q
  <2> SUFFICES ASSUME NEW f, NEW g, NEW i \in Nat, NEW j \in Nat, DigestsUpto(f, i), DigestsUpto(g, j)
               PROVE  f[0] = g[0]
    OBVIOUS
  <2>1. f[0] = DigestStep(f, 0) /\ g[0] = DigestStep(g, 0)
    BY DigestsUptoAt
  <2> QED BY <2>1 DEF DigestStep
<1>5. ASSUME NEW n \in Nat, n \in Q PROVE n + 1 \in Q
  <2> SUFFICES ASSUME NEW f, NEW g, NEW i \in Nat, NEW j \in Nat,
                      n + 1 <= i, n + 1 <= j, DigestsUpto(f, i), DigestsUpto(g, j)
               PROVE  f[n + 1] = g[n + 1]
    OBVIOUS
  <2>1. f[n] = g[n]
    <3>1. n <= i /\ n <= j
      OBVIOUS
    <3> QED BY <1>5, <3>1
  <2>2. f[n + 1] = DigestStep(f, n + 1) /\ g[n + 1] = DigestStep(g, n + 1)
    BY DigestsUptoAt
  <2>3. n + 1 # 0 /\ (n + 1) - 1 = n
    OBVIOUS
  <2>4. DigestStep(f, n + 1) = DigestStep(g, n + 1)
    BY ONLY <2>1, <2>3 DEF DigestStep
  <2> QED BY <2>2, <2>4
<1>6. Nat \subseteq Q
  <2> HIDE DEF Q
  <2> QED BY <1>4, <1>5, NatSetInduction
<1> DEFINE F == [n \in Nat |-> (CHOOSE f : DigestsUpto(f, n))[n]]
<1>7. \A n \in Nat : DigestsUpto(CHOOSE f : DigestsUpto(f, n), n)
  BY <1>3
<1>8. ASSUME NEW d \in Nat PROVE F[d] = DigestStep(F, d)
  <2> DEFINE f == CHOOSE e : DigestsUpto(e, d)
  <2>1. DigestsUpto(f, d) /\ F[d] = f[d]
    BY <1>7
  <2>2. f[d] = DigestStep(f, d)
    <3> HIDE DEF f
    <3> QED BY <2>1, DigestsUptoAt
  <2>3. CASE d = 0
    <3> HIDE DEF f, F
    <3> QED BY <2>1, <2>2, <2>3 DEF DigestStep
  <2>4. CASE d # 0
    <3> DEFINE g == CHOOSE e : DigestsUpto(e, d - 1)
    <3>1. d - 1 \in Nat /\ d - 1 <= d
      BY <2>4
    <3>2. DigestsUpto(g, d - 1) /\ F[d - 1] = g[d - 1]
      BY <1>7, <3>1
    <3>3. f[d - 1] = g[d - 1]
      <4>1. d - 1 \in Q
        BY <1>6, <3>1
      <4> HIDE DEF f, g
      <4> QED BY <2>1, <3>1, <3>2, <4>1
    <3> HIDE DEF f, g, F
    <3> QED BY <2>1, <2>2, <2>4, <3>2, <3>3 DEF DigestStep
  <2> QED BY <2>3, <2>4
<1>9. F = [d \in Nat |-> DigestStep(F, d)]
  BY <1>8
<1>10. Digests = CHOOSE f : f = [d \in Nat |-> DigestStep(f, d)]
  BY DEF Digests, DigestStep
<1>11. Digests = [d \in Nat |-> DigestStep(Digests, d)]
  <2> HIDE DEF F
  <2> QED BY <1>9, <1>10
<1> QED BY <1>11

\* The trees at one depth, given Shapes for smaller depths; f holds those to depth n.
ShapeStep(f, d) ==
  IF d = 0 THEN {Nil}
  ELSE {Nil} \cup [key : Keys, value : Vals, hash : Keys \X Vals,
                   merkle : Digests[d], height : Nat,
                   left : f[d - 1], right : f[d - 1]]

ShapesUpto(f, n) == f = [d \in 0 .. n |-> ShapeStep(f, d)]

\* A set of trees that ShapesUpto describes, at one depth.
LEMMA ShapesUptoAt ==
  ASSUME NEW n \in Nat, NEW f, ShapesUpto(f, n), NEW d \in Nat, d <= n
  PROVE  f[d] = ShapeStep(f, d)
<1>1. d \in 0 .. n
  OBVIOUS
<1> QED BY <1>1 DEF ShapesUpto

\* There are such f, which agree: Shapes is what its definition says.
LEMMA ShapesUnfold == \A d \in Nat : Shapes[d] = ShapeStep(Shapes, d)
<1> DEFINE P == {n \in Nat : \E f : ShapesUpto(f, n)}
           Q == {n \in Nat : \A f, g : \A i, j \in Nat :
                   n <= i /\ n <= j /\ ShapesUpto(f, i) /\ ShapesUpto(g, j) => f[n] = g[n]}
<1>1. 0 \in P
  <2> DEFINE f == [d \in 0 .. 0 |-> {Nil}]
  <2>1. ShapesUpto(f, 0)
    BY DEF ShapeStep, ShapesUpto
  <2> QED BY <2>1
<1>2. ASSUME NEW n \in Nat, n \in P PROVE n + 1 \in P
  <2>1. PICK f : ShapesUpto(f, n)
    BY <1>2
  <2> DEFINE h == [d \in 0 .. n + 1 |-> ShapeStep(f, d)]
  <2>2. \A d \in 0 .. n : d \in 0 .. n + 1 /\ h[d] = f[d]
    BY <2>1 DEF ShapesUpto
  <2>3. \A d \in 0 .. n + 1 : ShapeStep(f, d) = ShapeStep(h, d)
    <3>1. \A d \in 0 .. n + 1 : d # 0 => d - 1 \in 0 .. n
      OBVIOUS
    <3> HIDE DEF h
    <3> QED BY <2>2, <3>1 DEF ShapeStep
  <2>4. ShapesUpto(h, n + 1)
    BY <2>3 DEF ShapesUpto
  <2> HIDE DEF h
  <2> QED BY <2>4
<1>3. Nat \subseteq P
  <2> HIDE DEF P
  <2> QED BY <1>1, <1>2, NatSetInduction
<1>4. 0 \in Q
  <2> SUFFICES ASSUME NEW f, NEW g, NEW i \in Nat, NEW j \in Nat, ShapesUpto(f, i), ShapesUpto(g, j)
               PROVE  f[0] = g[0]
    OBVIOUS
  <2>1. f[0] = ShapeStep(f, 0) /\ g[0] = ShapeStep(g, 0)
    BY ShapesUptoAt
  <2> QED BY <2>1 DEF ShapeStep
<1>5. ASSUME NEW n \in Nat, n \in Q PROVE n + 1 \in Q
  <2> SUFFICES ASSUME NEW f, NEW g, NEW i \in Nat, NEW j \in Nat,
                      n + 1 <= i, n + 1 <= j, ShapesUpto(f, i), ShapesUpto(g, j)
               PROVE  f[n + 1] = g[n + 1]
    OBVIOUS
  <2>1. f[n] = g[n]
    <3>1. n <= i /\ n <= j
      OBVIOUS
    <3> QED BY <1>5, <3>1
  <2>2. f[n + 1] = ShapeStep(f, n + 1) /\ g[n + 1] = ShapeStep(g, n + 1)
    BY ShapesUptoAt
  <2>3. n + 1 # 0 /\ (n + 1) - 1 = n
    OBVIOUS
  <2>4. ShapeStep(f, n + 1) = ShapeStep(g, n + 1)
    BY ONLY <2>1, <2>3 DEF ShapeStep
  <2> QED BY <2>2, <2>4
<1>6. Nat \subseteq Q
  <2> HIDE DEF Q
  <2> QED BY <1>4, <1>5, NatSetInduction
<1> DEFINE F == [n \in Nat |-> (CHOOSE f : ShapesUpto(f, n))[n]]
<1>7. \A n \in Nat : ShapesUpto(CHOOSE f : ShapesUpto(f, n), n)
  BY <1>3
<1>8. ASSUME NEW d \in Nat PROVE F[d] = ShapeStep(F, d)
  <2> DEFINE f == CHOOSE e : ShapesUpto(e, d)
  <2>1. ShapesUpto(f, d) /\ F[d] = f[d]
    BY <1>7
  <2>2. f[d] = ShapeStep(f, d)
    <3> HIDE DEF f
    <3> QED BY <2>1, ShapesUptoAt
  <2>3. CASE d = 0
    <3> HIDE DEF f, F
    <3> QED BY <2>1, <2>2, <2>3 DEF ShapeStep
  <2>4. CASE d # 0
    <3> DEFINE g == CHOOSE e : ShapesUpto(e, d - 1)
    <3>1. d - 1 \in Nat /\ d - 1 <= d
      BY <2>4
    <3>2. ShapesUpto(g, d - 1) /\ F[d - 1] = g[d - 1]
      BY <1>7, <3>1
    <3>3. f[d - 1] = g[d - 1]
      <4>1. d - 1 \in Q
        BY <1>6, <3>1
      <4> HIDE DEF f, g
      <4> QED BY <2>1, <3>1, <3>2, <4>1
    <3> HIDE DEF f, g, F
    <3> QED BY <2>1, <2>2, <2>4, <3>2, <3>3 DEF ShapeStep
  <2> QED BY <2>3, <2>4
<1>9. F = [d \in Nat |-> ShapeStep(F, d)]
  BY <1>8
<1>10. Shapes = CHOOSE f : f = [d \in Nat |-> ShapeStep(f, d)]
  BY DEF Shapes, ShapeStep
<1>11. Shapes = [d \in Nat |-> ShapeStep(Shapes, d)]
  <2> HIDE DEF F
  <2> QED BY <1>9, <1>10
<1> QED BY <1>11

-----------------------------------------------------------------------------
(* The trees of any depth.  Branch holds those with a root, whatever their *)
(* cached fields say and in whatever order their keys are.                 *)

Digest == UNION {Digests[d] : d \in Nat}

Forest == UNION {Shapes[d] : d \in Nat}

Branch == [key : Keys, value : Vals, hash : Keys \X Vals, merkle : Digest,
           height : Nat, left : Forest, right : Forest]

\* Only the empty hash has depth 0.
LEMMA DigestsStart == Digests[0] = {EmptyChild}
  BY DigestsUnfold DEF DigestStep

\* The hashes one level deeper.
LEMMA DigestsNext ==
  ASSUME NEW d \in Nat
  PROVE  Digests[d + 1] =
           {EmptyChild} \cup (Digests[d] \X (Keys \X Vals) \X Digests[d])
<1>1. d + 1 \in Nat /\ d + 1 # 0 /\ (d + 1) - 1 = d
  OBVIOUS
<1> QED BY <1>1, DigestsUnfold DEF DigestStep

\* Only the empty tree has depth 0.
LEMMA ShapesStart == Shapes[0] = {Nil}
  BY ShapesUnfold DEF ShapeStep

\* The trees one level deeper.
LEMMA ShapesNext ==
  ASSUME NEW d \in Nat
  PROVE  Shapes[d + 1] =
           {Nil} \cup [key : Keys, value : Vals, hash : Keys \X Vals,
                       merkle : Digests[d + 1], height : Nat,
                       left : Shapes[d], right : Shapes[d]]
<1>1. d + 1 \in Nat /\ d + 1 # 0 /\ (d + 1) - 1 = d
  OBVIOUS
<1> QED BY <1>1, ShapesUnfold DEF ShapeStep

\* A bound on the depth may be raised.
LEMMA DigestsGrow ==
  ASSUME NEW d \in Nat, NEW e \in Nat, d <= e
  PROVE  Digests[d] \subseteq Digests[e]
<1> DEFINE P == {n \in Nat : Digests[n] \subseteq Digests[n + 1]}
           Q == {n \in Nat : Digests[d] \subseteq Digests[d + n]}
<1>1. 0 \in P
  <2>1. 0 + 1 = 1 /\ Digests[0 + 1] = {EmptyChild} \cup (Digests[0] \X (Keys \X Vals) \X Digests[0])
    BY DigestsNext
  <2> QED BY <2>1, DigestsStart
<1>2. ASSUME NEW n \in Nat, n \in P PROVE n + 1 \in P
  BY <1>2, DigestsNext
<1>3. Nat \subseteq P
  <2> HIDE DEF P
  <2> QED BY <1>1, <1>2, NatSetInduction
<1>4. 0 \in Q
  OBVIOUS
<1>5. ASSUME NEW n \in Nat, n \in Q PROVE n + 1 \in Q
  <2>1. d + n \in Nat /\ (d + n) + 1 = d + (n + 1)
    OBVIOUS
  <2>2. Digests[d + n] \subseteq Digests[(d + n) + 1]
    BY <1>3, <2>1
  <2> QED BY <1>5, <2>1, <2>2
<1>6. Nat \subseteq Q
  <2> HIDE DEF Q
  <2> QED BY <1>4, <1>5, NatSetInduction
<1>7. e - d \in Nat /\ d + (e - d) = e
  OBVIOUS
<1> QED BY <1>6, <1>7

\* A tree that is not deeper than d is not deeper than e.
LEMMA ShapesGrow ==
  ASSUME NEW d \in Nat, NEW e \in Nat, d <= e
  PROVE  Shapes[d] \subseteq Shapes[e]
<1> DEFINE P == {n \in Nat : Shapes[n] \subseteq Shapes[n + 1]}
           Q == {n \in Nat : Shapes[d] \subseteq Shapes[d + n]}
<1>1. 0 \in P
  BY ShapesStart, ShapesNext
<1>2. ASSUME NEW n \in Nat, n \in P PROVE n + 1 \in P
  <2>1. Digests[n + 1] \subseteq Digests[(n + 1) + 1]
    <3>1. n + 1 \in Nat /\ (n + 1) + 1 \in Nat /\ n + 1 <= (n + 1) + 1
      OBVIOUS
    <3> QED BY <3>1, DigestsGrow
  <2>2. Shapes[n] \subseteq Shapes[n + 1]
    BY <1>2
  <2>3. SUFFICES ASSUME NEW t \in Shapes[n + 1], t # Nil
                 PROVE  t \in Shapes[(n + 1) + 1]
    BY ShapesNext
  <2>4. t \in [key : Keys, value : Vals, hash : Keys \X Vals,
               merkle : Digests[n + 1], height : Nat,
               left : Shapes[n], right : Shapes[n]]
    BY <2>3, ShapesNext
  <2>5. t \in [key : Keys, value : Vals, hash : Keys \X Vals,
               merkle : Digests[(n + 1) + 1], height : Nat,
               left : Shapes[n + 1], right : Shapes[n + 1]]
    BY <2>1, <2>2, <2>4
  <2> QED BY <2>5, ShapesNext
<1>3. Nat \subseteq P
  <2> HIDE DEF P
  <2> QED BY <1>1, <1>2, NatSetInduction
<1>4. 0 \in Q
  OBVIOUS
<1>5. ASSUME NEW n \in Nat, n \in Q PROVE n + 1 \in Q
  <2>1. d + n \in Nat /\ (d + n) + 1 = d + (n + 1)
    OBVIOUS
  <2>2. Shapes[d + n] \subseteq Shapes[(d + n) + 1]
    BY <1>3, <2>1
  <2> QED BY <1>5, <2>1, <2>2
<1>6. Nat \subseteq Q
  <2> HIDE DEF Q
  <2> QED BY <1>4, <1>5, NatSetInduction
<1>7. e - d \in Nat /\ d + (e - d) = e
  OBVIOUS
<1> QED BY <1>6, <1>7

\* What is hashed into a hash.
LEMMA DigestUnfold ==
  /\ EmptyChild \in Digest
  /\ \A a, b \in Digest, h \in Keys \X Vals : <<a, h, b>> \in Digest
<1>1. EmptyChild \in Digest
  BY DigestsStart DEF Digest
<1>2. ASSUME NEW a \in Digest, NEW b \in Digest, NEW h \in Keys \X Vals
      PROVE  <<a, h, b>> \in Digest
  <2>1. PICK d \in Nat : a \in Digests[d]
    BY DEF Digest
  <2>2. PICK e \in Nat : b \in Digests[e]
    BY DEF Digest
  <2>3. PICK m \in Nat : d <= m /\ e <= m
    <3>1. d <= e \/ e <= d
      OBVIOUS
    <3> QED BY <3>1
  <2>4. a \in Digests[m] /\ b \in Digests[m]
    BY <2>1, <2>2, <2>3, DigestsGrow
  <2>5. <<a, h, b>> \in Digests[m + 1]
    BY <2>4, DigestsNext
  <2> QED BY <2>5 DEF Digest
<1> QED BY <1>1, <1>2

\* A tree is empty or has a root with two trees.
LEMMA ForestUnfold == Forest = {Nil} \cup Branch
<1>1. ASSUME NEW t \in Forest PROVE t \in {Nil} \cup Branch
  <2>1. PICK d \in Nat : t \in Shapes[d]
    BY DEF Forest
  <2>2. CASE d = 0
    BY <2>1, <2>2, ShapesStart
  <2>3. CASE d # 0
    <3>1. d - 1 \in Nat /\ (d - 1) + 1 = d
      BY <2>3
    <3>2. t \in {Nil} \cup [key : Keys, value : Vals, hash : Keys \X Vals,
                            merkle : Digests[d], height : Nat,
                            left : Shapes[d - 1], right : Shapes[d - 1]]
      BY <2>1, <3>1, ShapesNext
    <3>3. Digests[d] \subseteq Digest /\ Shapes[d - 1] \subseteq Forest
      BY <3>1 DEF Digest, Forest
    <3> QED BY <3>2, <3>3 DEF Branch
  <2> QED BY <2>2, <2>3
<1>2. Nil \in Forest
  BY ShapesStart DEF Forest
<1>3. ASSUME NEW t \in Branch PROVE t \in Forest
  <2>1. t.left \in Forest /\ t.right \in Forest /\ t.merkle \in Digest
    BY DEF Branch
  <2>2. PICK c \in Nat : t.merkle \in Digests[c]
    BY <2>1 DEF Digest
  <2>3. PICK d \in Nat : t.left \in Shapes[d]
    BY <2>1 DEF Forest
  <2>4. PICK e \in Nat : t.right \in Shapes[e]
    BY <2>1 DEF Forest
  <2>5. PICK m \in Nat : c <= m /\ d <= m /\ e <= m
    <3>1. c + d + e \in Nat /\ c <= c + d + e /\ d <= c + d + e /\ e <= c + d + e
      OBVIOUS
    <3> QED BY <3>1
  <2>6. m + 1 \in Nat /\ c <= m + 1
    BY <2>5
  <2>7. t.merkle \in Digests[m + 1] /\ t.left \in Shapes[m] /\ t.right \in Shapes[m]
    BY <2>2, <2>3, <2>4, <2>5, <2>6, DigestsGrow, ShapesGrow
  <2>8. t \in [key : Keys, value : Vals, hash : Keys \X Vals,
               merkle : Digests[m + 1], height : Nat,
               left : Shapes[m], right : Shapes[m]]
    BY <2>7 DEF Branch
  <2>9. t \in Shapes[m + 1]
    BY <2>8, ShapesNext
  <2> QED BY <2>6, <2>9 DEF Forest
<1> QED BY <1>1, <1>2, <1>3

\* The fields of a root.
LEMMA BranchFields ==
  ASSUME NEW n \in Branch
  PROVE  /\ n.key \in Keys /\ n.key \in Nat /\ n.key # 0 /\ ~ IsNil(n) /\ n # Nil
         /\ n.value \in Vals /\ n.value \in Nat /\ n.value # 0
         /\ n.hash \in Keys \X Vals /\ n.merkle \in Digest /\ n.height \in Nat
         /\ n.left \in Forest /\ n.right \in Forest /\ n \in Forest
  BY KeysAssumption, ValsAssumption, ForestUnfold DEF Branch, IsNil, Nil

\* The empty tree is a tree.
LEMMA NilFields == Nil \in Forest /\ IsNil(Nil)
  BY ForestUnfold DEF IsNil, Nil

\* is_none and is_some tell the two kinds of tree apart.
LEMMA IsNilOrBranch ==
  ASSUME NEW n \in Forest
  PROVE  /\ IsNil(n) <=> n = Nil
         /\ ~ IsNil(n) <=> n \in Branch
  BY ForestUnfold, BranchFields, NilFields

\* What holds of the empty tree, and of a tree when it holds of its two
\* children, holds of all trees.
LEMMA ForestInduction ==
  ASSUME NEW P, Nil \in P,
         \A n \in Branch : n.left \in P /\ n.right \in P => n \in P
  PROVE  Forest \subseteq P
<1> DEFINE Q == {d \in Nat : Shapes[d] \subseteq P}
<1>1. 0 \in Q
  BY ShapesStart
<1>2. ASSUME NEW d \in Nat, d \in Q PROVE d + 1 \in Q
  <2> SUFFICES ASSUME NEW t \in Shapes[d + 1], t # Nil PROVE t \in P
    OBVIOUS
  <2>1. t.left \in Shapes[d] /\ t.right \in Shapes[d]
    BY ShapesNext
  <2>2. t \in Branch
    <3>1. d + 1 \in Nat
      OBVIOUS
    <3>2. t \in Forest
      BY <3>1 DEF Forest
    <3> QED BY <3>2, ForestUnfold
  <2> QED BY <1>2, <2>1, <2>2
<1>3. Nat \subseteq Q
  <2> HIDE DEF Q
  <2> QED BY <1>1, <1>2, NatSetInduction
<1> QED BY <1>3 DEF Forest

-----------------------------------------------------------------------------
(* The nodes below a node, what they stand for, and the trees that are in  *)
(* order and whose caches are fresh.                                       *)

HasChildren(P) == \A m \in P \cap Branch : m.left \in P /\ m.right \in P

\* The smallest set with n and with the children of what is in it.
Subtrees(n) ==
  {m \in Forest : \A P \in SUBSET Forest : n \in P /\ HasChildren(P) => m \in P}

Entries(n) == {<<m.key, m.value>> : m \in Subtrees(n) \cap Branch}

Below(n, k) == \A e \in Entries(n) : e[1] < k
Above(n, k) == \A e \in Entries(n) : e[1] > k

\* What has to be set right in a node besides its height and its merkle hash.
InOrder(n) == /\ n.hash = LocalHash(n.key, n.value)
              /\ Below(n.left, n.key)
              /\ Above(n.right, n.key)

Settled(n) == /\ n.height = UpdateHeight(n)
              /\ n.merkle = UpdateHashes(n)

Avl == {n \in Forest : \A m \in Subtrees(n) \cap Branch : InOrder(m) /\ Settled(m)}

\* A node that is about to be updated.
Unsettled == {n \in Branch : InOrder(n) /\ n.left \in Avl /\ n.right \in Avl}

\* The empty tree has no subtree but itself.
LEMMA SubtreesOfNil == Subtrees(Nil) = {Nil}
<1>1. {Nil} \in SUBSET Forest /\ HasChildren({Nil})
  BY NilFields, BranchFields DEF HasChildren
<1> QED BY <1>1, NilFields DEF Subtrees

\* The subtrees of a node are it and those of its children.
LEMMA SubtreesUnfold ==
  ASSUME NEW n \in Branch
  PROVE  Subtrees(n) = {n} \cup Subtrees(n.left) \cup Subtrees(n.right)
<1> DEFINE S == {n} \cup Subtrees(n.left) \cup Subtrees(n.right)
<1>0. n \in Forest /\ n.left \in Forest /\ n.right \in Forest
  BY BranchFields
<1>1. \A c \in Forest : c \in Subtrees(c) /\ HasChildren(Subtrees(c)) /\ Subtrees(c) \subseteq Forest
  <2> SUFFICES ASSUME NEW c \in Forest
               PROVE  c \in Subtrees(c) /\ HasChildren(Subtrees(c)) /\ Subtrees(c) \subseteq Forest
    OBVIOUS
  <2>1. c \in Subtrees(c) /\ Subtrees(c) \subseteq Forest
    BY DEF Subtrees
  <2>2. ASSUME NEW m \in Subtrees(c), m \in Branch
        PROVE  m.left \in Subtrees(c) /\ m.right \in Subtrees(c)
    <3>1. m.left \in Forest /\ m.right \in Forest
      BY <2>2, BranchFields
    <3>2. ASSUME NEW P \in SUBSET Forest, c \in P, HasChildren(P)
          PROVE  m.left \in P /\ m.right \in P
      BY <2>2, <3>2 DEF Subtrees, HasChildren
    <3> QED BY <3>1, <3>2 DEF Subtrees
  <2> QED BY <2>1, <2>2 DEF HasChildren
<1>2. ASSUME NEW m \in S PROVE m \in Subtrees(n)
  <2>1. m \in Forest
    BY <1>0, <1>1
  <2>2. ASSUME NEW P \in SUBSET Forest, n \in P, HasChildren(P) PROVE m \in P
    <3>1. n.left \in P /\ n.right \in P
      BY <2>2 DEF HasChildren
    <3> QED BY <2>2, <3>1 DEF Subtrees
  <2> QED BY <2>1, <2>2 DEF Subtrees
<1>3. S \in SUBSET Forest /\ n \in S
  BY <1>0, <1>1
<1>4. HasChildren(S)
  <2>1. n.left \in S /\ n.right \in S
    BY <1>0, <1>1
  <2>2. HasChildren(Subtrees(n.left)) /\ HasChildren(Subtrees(n.right))
    BY <1>0, <1>1
  <2> QED BY <2>1, <2>2 DEF HasChildren
<1>5. Subtrees(n) \subseteq S
  <2> HIDE DEF S
  <2> QED BY <1>3, <1>4 DEF Subtrees
<1> QED BY <1>2, <1>5

\* The empty tree stands for nothing.
LEMMA EntriesOfNil == Entries(Nil) = {}
  BY SubtreesOfNil, BranchFields DEF Entries

\* A tree stands for its root's entry and those of the two children.
LEMMA EntriesUnfold ==
  ASSUME NEW n \in Branch
  PROVE  Entries(n) = Entries(n.left) \cup {<<n.key, n.value>>} \cup Entries(n.right)
  BY SubtreesUnfold DEF Entries

\* An entry is a key with a value.
LEMMA EntryTypes ==
  ASSUME NEW n
  PROVE  \A e \in Entries(n) :
           /\ e = <<e[1], e[2]>>
           /\ e[1] \in Keys /\ e[2] \in Vals
           /\ e[1] \in Nat /\ e[1] # 0
<1> SUFFICES ASSUME NEW m \in Branch
             PROVE  m.key \in Keys /\ m.value \in Vals /\ m.key \in Nat /\ m.key # 0
  BY DEF Entries
<1> QED BY BranchFields

\* The empty tree is in order.
LEMMA NilIsAvl == Nil \in Avl
  BY NilFields, SubtreesOfNil, BranchFields DEF Avl

\* A tree is in Avl when its root is settled between two trees of Avl.
LEMMA AvlUnfold ==
  ASSUME NEW n \in Branch
  PROVE  n \in Avl <=> n \in Unsettled /\ Settled(n)
<1>1. n \in Forest /\ n.left \in Forest /\ n.right \in Forest
  BY BranchFields
<1> QED BY <1>1, SubtreesUnfold DEF Avl, Unsettled

\* Avl is a set of trees.
LEMMA AvlInForest == Avl \subseteq Forest
  BY DEF Avl

\* The helpers of node.rs are defined for every tree.
LEMMA ChildLemma ==
  ASSUME NEW n \in Forest
  PROVE  ChildHeight(n) \in Nat /\ ChildHash(n) \in Digest
  BY IsNilOrBranch, BranchFields, DigestUnfold DEF ChildHeight, ChildHash

\* What Update stores in a node has the type of the fields.
LEMMA HeightLemma ==
  ASSUME NEW n \in Branch
  PROVE  /\ UpdateHeight(n) \in Nat
         /\ UpdateHashes(n) \in Digest
         /\ BalanceFactor(n) \in Int
<1>1. /\ ChildHeight(n.left) \in Nat /\ ChildHeight(n.right) \in Nat
      /\ ChildHash(n.left) \in Digest /\ ChildHash(n.right) \in Digest
  BY BranchFields, ChildLemma
<1>2. UpdateHeight(n) \in Nat /\ BalanceFactor(n) \in Int
  BY <1>1 DEF UpdateHeight, BalanceFactor
<1>3. UpdateHashes(n) \in Digest
  BY <1>1, BranchFields, DigestUnfold DEF UpdateHashes
<1> QED BY <1>2, <1>3

\* One child is replaced.
LEMMA SetLeft ==
  ASSUME NEW n \in Branch, NEW t \in Forest, NEW m, m = [n EXCEPT !.left = t]
  PROVE  /\ m \in Branch
         /\ m.left = t /\ m.right = n.right
         /\ m.key = n.key /\ m.value = n.value /\ m.hash = n.hash
  BY DEF Branch

\* The same on the right.
LEMMA SetRight ==
  ASSUME NEW n \in Branch, NEW t \in Forest, NEW m, m = [n EXCEPT !.right = t]
  PROVE  /\ m \in Branch
         /\ m.right = t /\ m.left = n.left
         /\ m.key = n.key /\ m.value = n.value /\ m.hash = n.hash
  BY DEF Branch

\* Update: a node whose children are in order is so itself afterwards.
LEMMA UpdateLemma ==
  ASSUME NEW n \in Unsettled
  PROVE  /\ Update(n) \in Branch /\ Update(n) \in Avl
         /\ Update(n).left = n.left /\ Update(n).right = n.right
         /\ Update(n).key = n.key /\ Update(n).value = n.value
         /\ Update(n).height = UpdateHeight(n)
         /\ Entries(Update(n)) = Entries(n)
<1> DEFINE u == Update(n)
<1>1. n \in Branch
  BY DEF Unsettled
<1>2. UpdateHeight(n) \in Nat /\ UpdateHashes(n) \in Digest
  BY <1>1, HeightLemma
<1>3. /\ u \in Branch
      /\ u.left = n.left /\ u.right = n.right /\ u.key = n.key /\ u.value = n.value
      /\ u.hash = n.hash /\ u.height = UpdateHeight(n) /\ u.merkle = UpdateHashes(n)
  BY <1>1, <1>2 DEF Branch, Update
<1> HIDE DEF u
<1>4. Settled(u)
  BY <1>3 DEF Settled, UpdateHeight, UpdateHashes
<1>5. u \in Unsettled
  BY <1>3 DEF Unsettled, InOrder
<1>6. u \in Avl
  BY <1>3, <1>4, <1>5, AvlUnfold
<1>7. Entries(u) = Entries(n)
  BY <1>1, <1>3, EntriesUnfold
<1> QED BY <1>3, <1>6, <1>7 DEF u

-----------------------------------------------------------------------------
(* Rotations and balance_node. *)

\* RotateRight: the left child becomes the root; nothing is lost and the order is kept.
LEMMA RotateRightLemma ==
  ASSUME NEW n \in Unsettled, n.left \in Branch
  PROVE  LET r == RotateRight(n)
         IN  /\ r \in Branch /\ r \in Avl
             /\ Entries(r) = Entries(n)
             /\ r.left = n.left.left
             /\ r.right \in Branch /\ r.right \in Avl
             /\ r.right.left = n.left.right
             /\ r.right.right = n.right
<1> DEFINE l == n.left
           a == [n EXCEPT !.left = l.right]
           s == Update(a)
           b == [l EXCEPT !.right = s]
<1>1. RotateRight(n) = Update(b)
  BY DEF RotateRight
<1>2. n \in Branch /\ InOrder(n) /\ n.left \in Avl /\ n.right \in Avl
  BY DEF Unsettled
<1>3. l \in Branch /\ l \in Avl /\ InOrder(l) /\ l.left \in Avl /\ l.right \in Avl
  BY <1>2, AvlUnfold DEF Unsettled
<1> HIDE DEF l
<1>4. /\ Entries(n) = Entries(n.left) \cup {<<n.key, n.value>>} \cup Entries(n.right)
      /\ Entries(l) = Entries(l.left) \cup {<<l.key, l.value>>} \cup Entries(l.right)
  BY <1>2, <1>3, EntriesUnfold
<1>5. /\ a \in Branch /\ a.left = l.right /\ a.right = n.right
      /\ a.key = n.key /\ a.value = n.value /\ a.hash = n.hash
  BY <1>2, <1>3, AvlInForest, SetLeft
<1> HIDE DEF a
<1>6. Entries(l) = Entries(n.left)
  BY DEF l
<1>7. a \in Unsettled
  <2>1. Below(a.left, a.key)
    BY <1>2, <1>4, <1>5, <1>6 DEF InOrder, Below, Above
  <2> QED BY <1>2, <1>3, <1>5, <2>1 DEF Unsettled, InOrder
<1>8. /\ s \in Branch /\ s \in Avl /\ s.left = l.right /\ s.right = n.right
      /\ Entries(s) = Entries(a)
  BY <1>5, <1>7, UpdateLemma
<1> HIDE DEF s
<1>9. Entries(s) = Entries(l.right) \cup {<<n.key, n.value>>} \cup Entries(n.right)
  BY <1>5, <1>8, EntriesUnfold
<1>10. /\ b \in Branch /\ b.right = s /\ b.left = l.left
       /\ b.key = l.key /\ b.value = l.value /\ b.hash = l.hash
  BY <1>3, <1>8, AvlInForest, SetRight
<1> HIDE DEF b
<1>11. b \in Unsettled
  <2>1. l.key < n.key /\ l.key \in Nat /\ n.key \in Nat
    <3>1. <<l.key, l.value>> \in Entries(n.left)
      BY <1>4, <1>6
    <3>2. <<l.key, l.value>>[1] = l.key
      OBVIOUS
    <3> QED BY <1>2, <1>3, <3>1, <3>2, BranchFields DEF InOrder, Below, Above
  <2>2. \A e \in Entries(n.right) : l.key < e[1]
    <3> SUFFICES ASSUME NEW e \in Entries(n.right) PROVE l.key < e[1]
      OBVIOUS
    <3>1. e[1] \in Nat /\ n.key < e[1]
      BY <1>2, EntryTypes DEF InOrder, Below, Above
    <3> QED BY <2>1, <3>1
  <2>3. \A e \in Entries(l.right) : l.key < e[1]
    <3> SUFFICES ASSUME NEW e \in Entries(l.right) PROVE l.key < e[1]
      OBVIOUS
    <3>1. e[1] \in Nat
      BY EntryTypes
    <3> QED BY <1>3, <2>1, <3>1 DEF InOrder, Below, Above
  <2>4. \A e \in Entries(s) : l.key < e[1]
    <3>1. <<n.key, n.value>>[1] = n.key
      OBVIOUS
    <3> QED BY <1>9, <2>1, <2>2, <2>3, <3>1
  <2>5. Above(s, l.key)
    <3> SUFFICES ASSUME NEW e \in Entries(s) PROVE e[1] > l.key
      BY DEF Above, Below
    <3>1. e[1] \in Nat /\ l.key < e[1]
      BY <2>4, EntryTypes
    <3> QED BY <2>1, <3>1
  <2> QED BY <1>3, <1>8, <1>10, <2>5 DEF Unsettled, InOrder
<1>12. /\ Update(b) \in Branch /\ Update(b) \in Avl
       /\ Update(b).left = l.left /\ Update(b).right = s
       /\ Entries(Update(b)) = Entries(b)
  BY <1>10, <1>11, UpdateLemma
<1>13. Entries(b) = Entries(l.left) \cup {<<l.key, l.value>>} \cup Entries(s)
  BY <1>10, EntriesUnfold
<1>14. Entries(b) = Entries(n)
  BY <1>4, <1>6, <1>9, <1>13
<1> QED BY <1>1, <1>8, <1>12, <1>14 DEF l

\* RotateLeft: the right child becomes the root; nothing is lost and the order is kept.
LEMMA RotateLeftLemma ==
  ASSUME NEW n \in Unsettled, n.right \in Branch
  PROVE  LET r == RotateLeft(n)
         IN  /\ r \in Branch /\ r \in Avl
             /\ Entries(r) = Entries(n)
             /\ r.right = n.right.right
             /\ r.left \in Branch /\ r.left \in Avl
             /\ r.left.right = n.right.left
             /\ r.left.left = n.left
<1> DEFINE l == n.right
           a == [n EXCEPT !.right = l.left]
           s == Update(a)
           b == [l EXCEPT !.left = s]
<1>1. RotateLeft(n) = Update(b)
  BY DEF RotateLeft
<1>2. n \in Branch /\ InOrder(n) /\ n.left \in Avl /\ n.right \in Avl
  BY DEF Unsettled
<1>3. l \in Branch /\ l \in Avl /\ InOrder(l) /\ l.left \in Avl /\ l.right \in Avl
  BY <1>2, AvlUnfold DEF Unsettled
<1> HIDE DEF l
<1>4. /\ Entries(n) = Entries(n.right) \cup {<<n.key, n.value>>} \cup Entries(n.left)
      /\ Entries(l) = Entries(l.right) \cup {<<l.key, l.value>>} \cup Entries(l.left)
  BY <1>2, <1>3, EntriesUnfold
<1>5. /\ a \in Branch /\ a.right = l.left /\ a.left = n.left
      /\ a.key = n.key /\ a.value = n.value /\ a.hash = n.hash
  BY <1>2, <1>3, AvlInForest, SetRight
<1> HIDE DEF a
<1>6. Entries(l) = Entries(n.right)
  BY DEF l
<1>7. a \in Unsettled
  <2>1. Above(a.right, a.key)
    BY <1>2, <1>4, <1>5, <1>6 DEF InOrder, Below, Above
  <2> QED BY <1>2, <1>3, <1>5, <2>1 DEF Unsettled, InOrder
<1>8. /\ s \in Branch /\ s \in Avl /\ s.right = l.left /\ s.left = n.left
      /\ Entries(s) = Entries(a)
  BY <1>5, <1>7, UpdateLemma
<1> HIDE DEF s
<1>9. Entries(s) = Entries(l.left) \cup {<<n.key, n.value>>} \cup Entries(n.left)
  BY <1>5, <1>8, EntriesUnfold
<1>10. /\ b \in Branch /\ b.left = s /\ b.right = l.right
       /\ b.key = l.key /\ b.value = l.value /\ b.hash = l.hash
  BY <1>3, <1>8, AvlInForest, SetLeft
<1> HIDE DEF b
<1>11. b \in Unsettled
  <2>1. l.key > n.key /\ l.key \in Nat /\ n.key \in Nat
    <3>1. <<l.key, l.value>> \in Entries(n.right)
      BY <1>4, <1>6
    <3>2. <<l.key, l.value>>[1] = l.key
      OBVIOUS
    <3> QED BY <1>2, <1>3, <3>1, <3>2, BranchFields DEF InOrder, Below, Above
  <2>2. \A e \in Entries(n.left) : l.key > e[1]
    <3> SUFFICES ASSUME NEW e \in Entries(n.left) PROVE l.key > e[1]
      OBVIOUS
    <3>1. e[1] \in Nat /\ n.key > e[1]
      BY <1>2, EntryTypes DEF InOrder, Below, Above
    <3> QED BY <2>1, <3>1
  <2>3. \A e \in Entries(l.left) : l.key > e[1]
    <3> SUFFICES ASSUME NEW e \in Entries(l.left) PROVE l.key > e[1]
      OBVIOUS
    <3>1. e[1] \in Nat
      BY EntryTypes
    <3> QED BY <1>3, <2>1, <3>1 DEF InOrder, Below, Above
  <2>4. \A e \in Entries(s) : l.key > e[1]
    <3>1. <<n.key, n.value>>[1] = n.key
      OBVIOUS
    <3> QED BY <1>9, <2>1, <2>2, <2>3, <3>1
  <2>5. Below(s, l.key)
    <3> SUFFICES ASSUME NEW e \in Entries(s) PROVE e[1] < l.key
      BY DEF Above, Below
    <3>1. e[1] \in Nat /\ l.key > e[1]
      BY <2>4, EntryTypes
    <3> QED BY <2>1, <3>1
  <2> QED BY <1>3, <1>8, <1>10, <2>5 DEF Unsettled, InOrder
<1>12. /\ Update(b) \in Branch /\ Update(b) \in Avl
       /\ Update(b).right = l.right /\ Update(b).left = s
       /\ Entries(Update(b)) = Entries(b)
  BY <1>10, <1>11, UpdateLemma
<1>13. Entries(b) = Entries(l.right) \cup {<<l.key, l.value>>} \cup Entries(s)
  BY <1>10, EntriesUnfold
<1>14. Entries(b) = Entries(n)
  BY <1>4, <1>6, <1>9, <1>13
<1> QED BY <1>1, <1>8, <1>12, <1>14 DEF l

\* A left child is replaced by another tree of keys on its side.
LEMMA PutLeft ==
  ASSUME NEW n \in Unsettled, NEW t \in Avl, Below(t, n.key),
         NEW m, m = [n EXCEPT !.left = t]
  PROVE  /\ m \in Unsettled
         /\ m.left = t /\ m.right = n.right /\ m.key = n.key /\ m.value = n.value
         /\ Entries(m) = Entries(t) \cup {<<n.key, n.value>>} \cup Entries(n.right)
<1>1. n \in Branch /\ t \in Forest
  BY AvlInForest DEF Unsettled
<1>2. /\ m \in Branch
      /\ m.left = t /\ m.right = n.right /\ m.key = n.key /\ m.value = n.value
      /\ m.hash = n.hash
  BY <1>1, SetLeft
<1>3. m \in Unsettled
  BY <1>2 DEF Unsettled, InOrder
<1> QED BY <1>2, <1>3, EntriesUnfold

\* A right child is replaced by another tree of keys on its side.
LEMMA PutRight ==
  ASSUME NEW n \in Unsettled, NEW t \in Avl, Above(t, n.key),
         NEW m, m = [n EXCEPT !.right = t]
  PROVE  /\ m \in Unsettled
         /\ m.right = t /\ m.left = n.left /\ m.key = n.key /\ m.value = n.value
         /\ Entries(m) = Entries(t) \cup {<<n.key, n.value>>} \cup Entries(n.left)
<1>1. n \in Branch /\ t \in Forest
  BY AvlInForest DEF Unsettled
<1>2. /\ m \in Branch
      /\ m.right = t /\ m.left = n.left /\ m.key = n.key /\ m.value = n.value
      /\ m.hash = n.hash
  BY <1>1, SetRight
<1>3. m \in Unsettled
  BY <1>2 DEF Unsettled, InOrder
<1> QED BY <1>2, <1>3, EntriesUnfold

\* A left subtree that is high enough to be rotated has the child it needs.
LEMMA TallLeft ==
  ASSUME NEW n \in Branch, n \in Avl, BalanceFactor(n) >= 2
  PROVE  /\ n.left \in Branch /\ n.left \in Avl /\ n.left.height >= 2
         /\ BalanceFactor(n.left) < 1 => n.left.right \in Branch
<1>1. n.left \in Forest /\ n.right \in Forest /\ n.left \in Avl /\ n.right \in Avl
  BY BranchFields, AvlUnfold DEF Unsettled
<1>2. ChildHeight(n.left) \in Nat /\ ChildHeight(n.right) \in Nat
  BY <1>1, ChildLemma
<1>3. ChildHeight(n.left) >= 2
  BY <1>2 DEF BalanceFactor
<1>4. ~ IsNil(n.left)
  BY <1>3 DEF ChildHeight
<1> DEFINE l == n.left
<1>5. l \in Branch /\ l \in Avl /\ l.height >= 2
  BY <1>1, <1>3, <1>4, IsNilOrBranch DEF ChildHeight
<1> HIDE DEF l
<1>6. l.left \in Forest /\ l.right \in Forest /\ l.height = UpdateHeight(l)
  BY <1>5, BranchFields, AvlUnfold DEF Settled
<1>7. ChildHeight(l.left) \in Nat /\ ChildHeight(l.right) \in Nat
  BY <1>6, ChildLemma
<1>8. ChildHeight(l.left) >= 1 \/ ChildHeight(l.right) >= 1
  BY <1>5, <1>6, <1>7 DEF UpdateHeight
<1>9. BalanceFactor(l) < 1 => ChildHeight(l.right) >= 1
  BY <1>7, <1>8 DEF BalanceFactor
<1>10. BalanceFactor(l) < 1 => ~ IsNil(l.right)
  BY <1>9 DEF ChildHeight
<1>11. BalanceFactor(l) < 1 => l.right \in Branch
  BY <1>6, <1>10, IsNilOrBranch
<1> QED BY <1>5, <1>11 DEF l

\* A right subtree that is high enough to be rotated has the child it needs.
LEMMA TallRight ==
  ASSUME NEW n \in Branch, n \in Avl, BalanceFactor(n) <= -2
  PROVE  /\ n.right \in Branch /\ n.right \in Avl /\ n.right.height >= 2
         /\ BalanceFactor(n.right) > -1 => n.right.left \in Branch
<1>1. n.left \in Forest /\ n.right \in Forest /\ n.left \in Avl /\ n.right \in Avl
  BY BranchFields, AvlUnfold DEF Unsettled
<1>2. ChildHeight(n.left) \in Nat /\ ChildHeight(n.right) \in Nat
  BY <1>1, ChildLemma
<1>3. ChildHeight(n.right) >= 2
  BY <1>2 DEF BalanceFactor
<1>4. ~ IsNil(n.right)
  BY <1>3 DEF ChildHeight
<1> DEFINE l == n.right
<1>5. l \in Branch /\ l \in Avl /\ l.height >= 2
  BY <1>1, <1>3, <1>4, IsNilOrBranch DEF ChildHeight
<1> HIDE DEF l
<1>6. l.left \in Forest /\ l.right \in Forest /\ l.height = UpdateHeight(l)
  BY <1>5, BranchFields, AvlUnfold DEF Settled
<1>7. ChildHeight(l.left) \in Nat /\ ChildHeight(l.right) \in Nat
  BY <1>6, ChildLemma
<1>8. ChildHeight(l.left) >= 1 \/ ChildHeight(l.right) >= 1
  BY <1>5, <1>6, <1>7 DEF UpdateHeight
<1>9. BalanceFactor(l) > -1 => ChildHeight(l.left) >= 1
  BY <1>7, <1>8 DEF BalanceFactor
<1>10. BalanceFactor(l) > -1 => ~ IsNil(l.left)
  BY <1>9 DEF ChildHeight
<1>11. BalanceFactor(l) > -1 => l.left \in Branch
  BY <1>6, <1>10, IsNilOrBranch
<1> QED BY <1>5, <1>11 DEF l

\* balance_node keeps what a tree stands for, its order and its caches.
LEMMA BalanceLemma ==
  ASSUME NEW n \in Branch, n \in Avl
  PROVE  /\ BalanceNode(n) \in Branch /\ BalanceNode(n) \in Avl
         /\ Entries(BalanceNode(n)) = Entries(n)
<1>0. n \in Unsettled /\ BalanceFactor(n) \in Int
  BY AvlUnfold, HeightLemma
<1>1. CASE BalanceFactor(n) >= 2
  <2>1. /\ n.left \in Branch /\ n.left \in Avl
        /\ BalanceFactor(n.left) < 1 => n.left.right \in Branch
    BY <1>1, TallLeft
  <2>2. CASE BalanceFactor(n.left) < 1
    <3> DEFINE t == RotateLeft(n.left)
               m == [n EXCEPT !.left = t]
    <3>1. n.left \in Unsettled
      BY <2>1, AvlUnfold
    <3>2. t \in Branch /\ t \in Avl /\ Entries(t) = Entries(n.left)
      BY <2>1, <2>2, <3>1, RotateLeftLemma
    <3> HIDE DEF t
    <3>3. Below(t, n.key)
      BY <1>0, <3>2 DEF Unsettled, InOrder, Below
    <3>4. /\ m \in Unsettled /\ m.left = t
          /\ Entries(m) = Entries(t) \cup {<<n.key, n.value>>} \cup Entries(n.right)
      BY <1>0, <3>2, <3>3, PutLeft
    <3>5. BalanceNode(n) = RotateRight(m)
      BY <1>1, <2>2 DEF BalanceNode, t
    <3> HIDE DEF m
    <3>6. RotateRight(m) \in Branch /\ RotateRight(m) \in Avl /\ Entries(RotateRight(m)) = Entries(m)
      BY <3>2, <3>4, RotateRightLemma
    <3>7. Entries(m) = Entries(n)
      BY <3>2, <3>4, EntriesUnfold
    <3> QED BY <3>5, <3>6, <3>7
  <2>3. CASE ~ (BalanceFactor(n.left) < 1)
    <3>1. BalanceNode(n) = RotateRight(n)
      BY <1>1, <2>3 DEF BalanceNode
    <3> QED BY <1>0, <2>1, <3>1, RotateRightLemma
  <2> QED BY <2>2, <2>3
<1>2. CASE BalanceFactor(n) <= -2
  <2>0. ~ (BalanceFactor(n) >= 2)
    BY <1>0, <1>2
  <2>1. /\ n.right \in Branch /\ n.right \in Avl
        /\ BalanceFactor(n.right) > -1 => n.right.left \in Branch
    BY <1>2, TallRight
  <2>2. CASE BalanceFactor(n.right) > -1
    <3> DEFINE t == RotateRight(n.right)
               m == [n EXCEPT !.right = t]
    <3>1. n.right \in Unsettled
      BY <2>1, AvlUnfold
    <3>2. t \in Branch /\ t \in Avl /\ Entries(t) = Entries(n.right)
      BY <2>1, <2>2, <3>1, RotateRightLemma
    <3> HIDE DEF t
    <3>3. Above(t, n.key)
      BY <1>0, <3>2 DEF Unsettled, InOrder, Above
    <3>4. /\ m \in Unsettled /\ m.right = t
          /\ Entries(m) = Entries(t) \cup {<<n.key, n.value>>} \cup Entries(n.left)
      BY <1>0, <3>2, <3>3, PutRight
    <3>5. BalanceNode(n) = RotateLeft(m)
      BY <1>2, <2>0, <2>2 DEF BalanceNode, t
    <3> HIDE DEF m
    <3>6. RotateLeft(m) \in Branch /\ RotateLeft(m) \in Avl /\ Entries(RotateLeft(m)) = Entries(m)
      BY <3>2, <3>4, RotateLeftLemma
    <3>7. Entries(m) = Entries(n)
      BY <3>2, <3>4, EntriesUnfold
    <3> QED BY <3>5, <3>6, <3>7
  <2>3. CASE ~ (BalanceFactor(n.right) > -1)
    <3>1. BalanceNode(n) = RotateLeft(n)
      BY <1>2, <2>0, <2>3 DEF BalanceNode
    <3> QED BY <1>0, <2>1, <3>1, RotateLeftLemma
  <2> QED BY <2>2, <2>3
<1>3. CASE ~ (BalanceFactor(n) >= 2) /\ ~ (BalanceFactor(n) <= -2)
  <2>1. BalanceNode(n) = n
    BY <1>3 DEF BalanceNode
  <2> QED BY <2>1
<1> QED BY <1>1, <1>2, <1>3

-----------------------------------------------------------------------------
(* The recursive functions of AvlTree are what their definitions say, on   *)
(* the trees they are defined for.  Each proof builds the function for     *)
(* deeper and deeper trees.                                                *)

\* There are finitely many keys.
LEMMA CardKeys == Cardinality(Keys) \in Nat
  BY KeysAssumption, FS_CardinalityType

\* The children of a tree of Trees are in Trees, as is the empty tree.
LEMMA TreesUnfold ==
  /\ Trees \subseteq Forest
  /\ Nil \in Trees
  /\ \A n \in Trees : IsNil(n) \/ (n \in Branch /\ n.left \in Trees /\ n.right \in Trees)
<1>1. Trees \subseteq Forest
  BY CardKeys DEF Trees, Forest
<1>2. Nil \in Trees
  BY CardKeys, ShapesUnfold DEF Trees, ShapeStep
<1>3. ASSUME NEW n \in Trees, ~ IsNil(n)
      PROVE  n \in Branch /\ n.left \in Trees /\ n.right \in Trees
  <2> DEFINE c == Cardinality(Keys)
  <2>1. c \in Nat /\ n \in Shapes[c]
    BY CardKeys DEF Trees
  <2> HIDE DEF c
  <2>2. c # 0 /\ n # Nil
    BY <1>3, <2>1, ShapesStart, NilFields
  <2>3. c - 1 \in Nat /\ c - 1 <= c /\ (c - 1) + 1 = c
    BY <2>1, <2>2
  <2>4. n.left \in Shapes[c - 1] /\ n.right \in Shapes[c - 1]
    BY <2>1, <2>2, <2>3, ShapesNext
  <2>5. n.left \in Shapes[c] /\ n.right \in Shapes[c]
    BY <2>1, <2>3, <2>4, ShapesGrow
  <2> QED BY <1>1, <1>3, <2>5, IsNilOrBranch DEF Trees, c
<1> QED BY <1>1, <1>2, <1>3

\* get at m, given get at the children of m.
GetStep(f, k, m) ==
  IF IsNil(m) THEN 0
  ELSE IF m.key > k THEN f[m.left]
  ELSE IF m.key < k THEN f[m.right]
  ELSE m.value

\* There is a function on Trees that GetStep describes.
LEMMA GetExists ==
  ASSUME NEW k
  PROVE  \E f : f = [m \in Trees |-> GetStep(f, k, m)]
<1> DEFINE P == {d \in Nat : \E f : f = [m \in Shapes[d] |-> GetStep(f, k, m)]}
<1>1. 0 \in P
  <2> DEFINE h == [m \in Shapes[0] |-> GetStep(0, k, m)]
  <2>1. \A m \in Shapes[0] : GetStep(0, k, m) = GetStep(h, k, m)
    <3>1. \A m \in Shapes[0] : m = Nil /\ IsNil(m)
      BY ShapesStart, NilFields
    <3> HIDE DEF h
    <3> QED BY <3>1, NilFields DEF GetStep
  <2>2. h = [m \in Shapes[0] |-> GetStep(h, k, m)]
    BY <2>1
  <2> HIDE DEF h
  <2> QED BY <2>2
<1>2. ASSUME NEW d \in Nat, d \in P PROVE d + 1 \in P
  <2>1. PICK f : f = [m \in Shapes[d] |-> GetStep(f, k, m)]
    BY <1>2
  <2> DEFINE h == [m \in Shapes[d + 1] |-> GetStep(f, k, m)]
  <2>2. d + 1 \in Nat /\ d <= d + 1
    OBVIOUS
  <2>3. \A m \in Shapes[d] : m \in Shapes[d + 1] /\ f[m] = h[m]
    BY <2>1, <2>2, ShapesGrow
  <2>4. ASSUME NEW m \in Shapes[d + 1] PROVE GetStep(f, k, m) = GetStep(h, k, m)
    <3>1. CASE m = Nil
      BY <3>1, NilFields DEF GetStep
    <3>2. CASE m # Nil
      <4>1. m.left \in Shapes[d] /\ m.right \in Shapes[d]
        BY <3>2, ShapesNext
      <4> HIDE DEF h
      <4>2. f[m.left] = h[m.left] /\ f[m.right] = h[m.right]
        BY <2>3, <4>1
      <4> QED BY <4>2 DEF GetStep
    <3> QED BY <3>1, <3>2
  <2>5. h = [m \in Shapes[d + 1] |-> GetStep(h, k, m)]
    BY <2>4
  <2> HIDE DEF h
  <2> QED BY <2>2, <2>5
<1>3. Nat \subseteq P
  <2> HIDE DEF P
  <2> QED BY <1>1, <1>2, NatSetInduction
<1> QED BY <1>3, CardKeys DEF Trees

\* get is what its recursive definition says.
LEMMA GetUnfold ==
  ASSUME NEW n \in Trees, NEW k
  PROVE  TreeGet(n, k) = IF IsNil(n) THEN 0
                        ELSE IF n.key > k THEN TreeGet(n.left, k)
                        ELSE IF n.key < k THEN TreeGet(n.right, k)
                        ELSE n.value
<1> DEFINE f == CHOOSE g : g = [m \in Trees |-> GetStep(g, k, m)]
<1>1. f = [m \in Trees |-> GetStep(f, k, m)]
  BY GetExists
<1>2. \A m : TreeGet(m, k) = f[m]
  BY DEF TreeGet, GetStep
<1> HIDE DEF f
<1>3. f[n] = GetStep(f, k, n)
  BY <1>1
<1> QED BY <1>2, <1>3 DEF GetStep

\* get finds nothing in the empty tree.
LEMMA GetOfNil == ASSUME NEW k PROVE TreeGet(Nil, k) = 0
  BY GetUnfold, TreesUnfold, NilFields

\* insert at m, given what it makes of the children of m.
InsertStep(f, k, v, m) ==
  IF IsNil(m) THEN AsNodeRef(k, v)
  ELSE BalanceNode(Update(
         IF m.key > k THEN [m EXCEPT !.left = f[m.left]]
         ELSE IF m.key < k THEN [m EXCEPT !.right = f[m.right]]
         ELSE SetValue(m, v)))

\* There is a function on Trees that InsertStep describes.
LEMMA InsertExists ==
  ASSUME NEW k, NEW v
  PROVE  \E f : f = [m \in Trees |-> InsertStep(f, k, v, m)]
<1> DEFINE P == {d \in Nat : \E f : f = [m \in Shapes[d] |-> InsertStep(f, k, v, m)]}
<1>1. 0 \in P
  <2> DEFINE h == [m \in Shapes[0] |-> InsertStep(0, k, v, m)]
  <2>1. \A m \in Shapes[0] : InsertStep(0, k, v, m) = InsertStep(h, k, v, m)
    <3>1. \A m \in Shapes[0] : m = Nil /\ IsNil(m)
      BY ShapesStart, NilFields
    <3> HIDE DEF h
    <3> QED BY <3>1, NilFields DEF InsertStep
  <2>2. h = [m \in Shapes[0] |-> InsertStep(h, k, v, m)]
    BY <2>1
  <2> HIDE DEF h
  <2> QED BY <2>2
<1>2. ASSUME NEW d \in Nat, d \in P PROVE d + 1 \in P
  <2>1. PICK f : f = [m \in Shapes[d] |-> InsertStep(f, k, v, m)]
    BY <1>2
  <2> DEFINE h == [m \in Shapes[d + 1] |-> InsertStep(f, k, v, m)]
  <2>2. d + 1 \in Nat /\ d <= d + 1
    OBVIOUS
  <2>3. \A m \in Shapes[d] : m \in Shapes[d + 1] /\ f[m] = h[m]
    BY <2>1, <2>2, ShapesGrow
  <2>4. ASSUME NEW m \in Shapes[d + 1] PROVE InsertStep(f, k, v, m) = InsertStep(h, k, v, m)
    <3>1. CASE m = Nil
      BY <3>1, NilFields DEF InsertStep
    <3>2. CASE m # Nil
      <4>1. m.left \in Shapes[d] /\ m.right \in Shapes[d]
        BY <3>2, ShapesNext
      <4> HIDE DEF h
      <4>2. f[m.left] = h[m.left] /\ f[m.right] = h[m.right]
        BY <2>3, <4>1
      <4> QED BY <4>2 DEF InsertStep
    <3> QED BY <3>1, <3>2
  <2>5. h = [m \in Shapes[d + 1] |-> InsertStep(h, k, v, m)]
    BY <2>4
  <2> HIDE DEF h
  <2> QED BY <2>2, <2>5
<1>3. Nat \subseteq P
  <2> HIDE DEF P
  <2> QED BY <1>1, <1>2, NatSetInduction
<1> QED BY <1>3, CardKeys DEF Trees

\* insert is what its recursive definition says.
LEMMA InsertUnfold ==
  ASSUME NEW n \in Trees, NEW k, NEW v
  PROVE  InsertRec(n, k, v) =
           IF IsNil(n) THEN AsNodeRef(k, v)
           ELSE BalanceNode(Update(
                  IF n.key > k THEN [n EXCEPT !.left = InsertRec(n.left, k, v)]
                  ELSE IF n.key < k THEN [n EXCEPT !.right = InsertRec(n.right, k, v)]
                  ELSE SetValue(n, v)))
<1> DEFINE f == CHOOSE g : g = [m \in Trees |-> InsertStep(g, k, v, m)]
<1>1. f = [m \in Trees |-> InsertStep(f, k, v, m)]
  BY InsertExists
<1>2. \A m : InsertRec(m, k, v) = f[m]
  BY DEF InsertRec, InsertStep
<1> HIDE DEF f
<1>3. f[n] = InsertStep(f, k, v, n)
  BY <1>1
<1> QED BY <1>2, <1>3 DEF InsertStep

\* remove_leftmost at m, given what it makes of the left child.
LeftmostStep(f, m) ==
  IF IsNil(m.left)
  THEN [rest |-> m.right, removed |-> [m EXCEPT !.right = Nil]]
  ELSE [rest |-> BalanceNode(Update([m EXCEPT !.left = f[m.left].rest])),
        removed |-> f[m.left].removed]

\* There is a function on Trees that LeftmostStep describes.
LEMMA LeftmostExists ==
  \E f : f = [m \in Trees \ {Nil} |-> LeftmostStep(f, m)]
<1> DEFINE P == {d \in Nat : \E f : f = [m \in Shapes[d] \ {Nil} |-> LeftmostStep(f, m)]}
<1>1. 0 \in P
  <2> DEFINE h == [m \in Shapes[0] \ {Nil} |-> LeftmostStep(0, m)]
  <2>1. \A m \in Shapes[0] \ {Nil} : LeftmostStep(0, m) = LeftmostStep(h, m)
    <3>1. \A m \in Shapes[0] \ {Nil} : m = Nil /\ IsNil(m)
      BY ShapesStart, NilFields
    <3> HIDE DEF h
    <3> QED BY <3>1, NilFields DEF LeftmostStep
  <2>2. h = [m \in Shapes[0] \ {Nil} |-> LeftmostStep(h, m)]
    BY <2>1
  <2> HIDE DEF h
  <2> QED BY <2>2
<1>2. ASSUME NEW d \in Nat, d \in P PROVE d + 1 \in P
  <2>1. PICK f : f = [m \in Shapes[d] \ {Nil} |-> LeftmostStep(f, m)]
    BY <1>2
  <2> DEFINE h == [m \in Shapes[d + 1] \ {Nil} |-> LeftmostStep(f, m)]
  <2>2. d + 1 \in Nat /\ d <= d + 1
    OBVIOUS
  <2>3. \A m \in Shapes[d] \ {Nil} : m \in Shapes[d + 1] \ {Nil} /\ f[m] = h[m]
    BY <2>1, <2>2, ShapesGrow
  <2>4. ASSUME NEW m \in Shapes[d + 1] \ {Nil} PROVE LeftmostStep(f, m) = LeftmostStep(h, m)
    <3>1. CASE m = Nil
      BY <3>1, NilFields DEF LeftmostStep
    <3>2. CASE m # Nil
      <4>1. m.left \in Shapes[d] /\ m.right \in Shapes[d]
        BY <3>2, ShapesNext
      <4> HIDE DEF h
      <4>2. \A x \in Shapes[d] : IsNil(x) \/ x # Nil
        BY NilFields
      <4>3. IsNil(m.left) \/ f[m.left] = h[m.left]
        BY <2>3, <4>1, <4>2
      <4> QED BY <4>3 DEF LeftmostStep
    <3> QED BY <3>1, <3>2
  <2>5. h = [m \in Shapes[d + 1] \ {Nil} |-> LeftmostStep(h, m)]
    BY <2>4
  <2> HIDE DEF h
  <2> QED BY <2>2, <2>5
<1>3. Nat \subseteq P
  <2> HIDE DEF P
  <2> QED BY <1>1, <1>2, NatSetInduction
<1> QED BY <1>3, CardKeys DEF Trees

\* remove_leftmost is what its recursive definition says.
LEMMA LeftmostUnfold ==
  ASSUME NEW n \in Trees \ {Nil}
  PROVE  RemoveLeftmost(n) =
           IF IsNil(n.left)
           THEN [rest |-> n.right, removed |-> [n EXCEPT !.right = Nil]]
           ELSE [rest |-> BalanceNode(Update([n EXCEPT !.left = RemoveLeftmost(n.left).rest])),
                 removed |-> RemoveLeftmost(n.left).removed]
<1> DEFINE f == CHOOSE g : g = [m \in Trees \ {Nil} |-> LeftmostStep(g, m)]
<1>1. f = [m \in Trees \ {Nil} |-> LeftmostStep(f, m)]
  BY LeftmostExists
<1>2. \A m : RemoveLeftmost(m) = f[m]
  BY DEF RemoveLeftmost, LeftmostStep
<1> HIDE DEF f
<1>3. f[n] = LeftmostStep(f, n)
  BY <1>1
<1> QED BY <1>2, <1>3 DEF LeftmostStep

\* remove_rightmost at m, given what it makes of the right child.
RightmostStep(f, m) ==
  IF IsNil(m.right)
  THEN [rest |-> m.left, removed |-> [m EXCEPT !.left = Nil]]
  ELSE [rest |-> BalanceNode(Update([m EXCEPT !.right = f[m.right].rest])),
        removed |-> f[m.right].removed]

\* There is a function on Trees that RightmostStep describes.
LEMMA RightmostExists ==
  \E f : f = [m \in Trees \ {Nil} |-> RightmostStep(f, m)]
<1> DEFINE P == {d \in Nat : \E f : f = [m \in Shapes[d] \ {Nil} |-> RightmostStep(f, m)]}
<1>1. 0 \in P
  <2> DEFINE h == [m \in Shapes[0] \ {Nil} |-> RightmostStep(0, m)]
  <2>1. \A m \in Shapes[0] \ {Nil} : RightmostStep(0, m) = RightmostStep(h, m)
    <3>1. \A m \in Shapes[0] \ {Nil} : m = Nil /\ IsNil(m)
      BY ShapesStart, NilFields
    <3> HIDE DEF h
    <3> QED BY <3>1, NilFields DEF RightmostStep
  <2>2. h = [m \in Shapes[0] \ {Nil} |-> RightmostStep(h, m)]
    BY <2>1
  <2> HIDE DEF h
  <2> QED BY <2>2
<1>2. ASSUME NEW d \in Nat, d \in P PROVE d + 1 \in P
  <2>1. PICK f : f = [m \in Shapes[d] \ {Nil} |-> RightmostStep(f, m)]
    BY <1>2
  <2> DEFINE h == [m \in Shapes[d + 1] \ {Nil} |-> RightmostStep(f, m)]
  <2>2. d + 1 \in Nat /\ d <= d + 1
    OBVIOUS
  <2>3. \A m \in Shapes[d] \ {Nil} : m \in Shapes[d + 1] \ {Nil} /\ f[m] = h[m]
    BY <2>1, <2>2, ShapesGrow
  <2>4. ASSUME NEW m \in Shapes[d + 1] \ {Nil} PROVE RightmostStep(f, m) = RightmostStep(h, m)
    <3>1. CASE m = Nil
      BY <3>1, NilFields DEF RightmostStep
    <3>2. CASE m # Nil
      <4>1. m.left \in Shapes[d] /\ m.right \in Shapes[d]
        BY <3>2, ShapesNext
      <4> HIDE DEF h
      <4>2. \A x \in Shapes[d] : IsNil(x) \/ x # Nil
        BY NilFields
      <4>3. IsNil(m.right) \/ f[m.right] = h[m.right]
        BY <2>3, <4>1, <4>2
      <4> QED BY <4>3 DEF RightmostStep
    <3> QED BY <3>1, <3>2
  <2>5. h = [m \in Shapes[d + 1] \ {Nil} |-> RightmostStep(h, m)]
    BY <2>4
  <2> HIDE DEF h
  <2> QED BY <2>2, <2>5
<1>3. Nat \subseteq P
  <2> HIDE DEF P
  <2> QED BY <1>1, <1>2, NatSetInduction
<1> QED BY <1>3, CardKeys DEF Trees

\* remove_rightmost is what its recursive definition says.
LEMMA RightmostUnfold ==
  ASSUME NEW n \in Trees \ {Nil}
  PROVE  RemoveRightmost(n) =
           IF IsNil(n.right)
           THEN [rest |-> n.left, removed |-> [n EXCEPT !.left = Nil]]
           ELSE [rest |-> BalanceNode(Update([n EXCEPT !.right = RemoveRightmost(n.right).rest])),
                 removed |-> RemoveRightmost(n.right).removed]
<1> DEFINE f == CHOOSE g : g = [m \in Trees \ {Nil} |-> RightmostStep(g, m)]
<1>1. f = [m \in Trees \ {Nil} |-> RightmostStep(f, m)]
  BY RightmostExists
<1>2. \A m : RemoveRightmost(m) = f[m]
  BY DEF RemoveRightmost, RightmostStep
<1> HIDE DEF f
<1>3. f[n] = RightmostStep(f, n)
  BY <1>1
<1> QED BY <1>2, <1>3 DEF RightmostStep

\* remove at m, given what it makes of the children of m.
RemoveStep(f, k, m) ==
  IF TreeGet(m, k) = 0 THEN m
  ELSE Rebalanced(
         IF m.key > k THEN [m EXCEPT !.left = f[m.left]]
         ELSE IF m.key < k THEN [m EXCEPT !.right = f[m.right]]
         ELSE RemoveRoot(m))

\* There is a function on Trees that RemoveStep describes.
LEMMA RemoveExists ==
  ASSUME NEW k
  PROVE  \E f : f = [m \in Trees |-> RemoveStep(f, k, m)]
<1> DEFINE P == {d \in Nat : \E f : f = [m \in Shapes[d] |-> RemoveStep(f, k, m)]}
<1>1. 0 \in P
  <2> DEFINE h == [m \in Shapes[0] |-> RemoveStep(0, k, m)]
  <2>1. \A m \in Shapes[0] : RemoveStep(0, k, m) = RemoveStep(h, k, m)
    <3>1. \A m \in Shapes[0] : m = Nil /\ IsNil(m)
      BY ShapesStart, NilFields
    <3> HIDE DEF h
    <3> QED BY <3>1, NilFields, GetOfNil DEF RemoveStep
  <2>2. h = [m \in Shapes[0] |-> RemoveStep(h, k, m)]
    BY <2>1
  <2> HIDE DEF h
  <2> QED BY <2>2
<1>2. ASSUME NEW d \in Nat, d \in P PROVE d + 1 \in P
  <2>1. PICK f : f = [m \in Shapes[d] |-> RemoveStep(f, k, m)]
    BY <1>2
  <2> DEFINE h == [m \in Shapes[d + 1] |-> RemoveStep(f, k, m)]
  <2>2. d + 1 \in Nat /\ d <= d + 1
    OBVIOUS
  <2>3. \A m \in Shapes[d] : m \in Shapes[d + 1] /\ f[m] = h[m]
    BY <2>1, <2>2, ShapesGrow
  <2>4. ASSUME NEW m \in Shapes[d + 1] PROVE RemoveStep(f, k, m) = RemoveStep(h, k, m)
    <3>1. CASE m = Nil
      BY <3>1, NilFields, GetOfNil DEF RemoveStep
    <3>2. CASE m # Nil
      <4>1. m.left \in Shapes[d] /\ m.right \in Shapes[d]
        BY <3>2, ShapesNext
      <4> HIDE DEF h
      <4>2. f[m.left] = h[m.left] /\ f[m.right] = h[m.right]
        BY <2>3, <4>1
      <4> QED BY <4>2 DEF RemoveStep
    <3> QED BY <3>1, <3>2
  <2>5. h = [m \in Shapes[d + 1] |-> RemoveStep(h, k, m)]
    BY <2>4
  <2> HIDE DEF h
  <2> QED BY <2>2, <2>5
<1>3. Nat \subseteq P
  <2> HIDE DEF P
  <2> QED BY <1>1, <1>2, NatSetInduction
<1> QED BY <1>3, CardKeys DEF Trees

\* remove is what its recursive definition says.
LEMMA RemoveUnfold ==
  ASSUME NEW n \in Trees, NEW k
  PROVE  RemoveRec(n, k) =
           IF TreeGet(n, k) = 0 THEN n
           ELSE Rebalanced(
                  IF n.key > k THEN [n EXCEPT !.left = RemoveRec(n.left, k)]
                  ELSE IF n.key < k THEN [n EXCEPT !.right = RemoveRec(n.right, k)]
                  ELSE RemoveRoot(n))
<1> DEFINE f == CHOOSE g : g = [m \in Trees |-> RemoveStep(g, k, m)]
<1>1. f = [m \in Trees |-> RemoveStep(f, k, m)]
  BY RemoveExists
<1>2. \A m : RemoveRec(m, k) = f[m]
  BY DEF RemoveRec, RemoveStep
<1> HIDE DEF f
<1>3. f[n] = RemoveStep(f, k, n)
  BY <1>1
<1> QED BY <1>2, <1>3 DEF RemoveStep

\* get_keys at m, given those of the children of m.
KeysStep(f, m) ==
  IF IsNil(m) THEN <<>>
  ELSE f[m.left] \o <<m.key>> \o f[m.right]

\* There is a function on Trees that KeysStep describes.
LEMMA KeysExists ==
  \E f : f = [m \in Trees |-> KeysStep(f, m)]
<1> DEFINE P == {d \in Nat : \E f : f = [m \in Shapes[d] |-> KeysStep(f, m)]}
<1>1. 0 \in P
  <2> DEFINE h == [m \in Shapes[0] |-> KeysStep(0, m)]
  <2>1. \A m \in Shapes[0] : KeysStep(0, m) = KeysStep(h, m)
    <3>1. \A m \in Shapes[0] : m = Nil /\ IsNil(m)
      BY ShapesStart, NilFields
    <3> HIDE DEF h
    <3> QED BY <3>1, NilFields DEF KeysStep
  <2>2. h = [m \in Shapes[0] |-> KeysStep(h, m)]
    BY <2>1
  <2> HIDE DEF h
  <2> QED BY <2>2
<1>2. ASSUME NEW d \in Nat, d \in P PROVE d + 1 \in P
  <2>1. PICK f : f = [m \in Shapes[d] |-> KeysStep(f, m)]
    BY <1>2
  <2> DEFINE h == [m \in Shapes[d + 1] |-> KeysStep(f, m)]
  <2>2. d + 1 \in Nat /\ d <= d + 1
    OBVIOUS
  <2>3. \A m \in Shapes[d] : m \in Shapes[d + 1] /\ f[m] = h[m]
    BY <2>1, <2>2, ShapesGrow
  <2>4. ASSUME NEW m \in Shapes[d + 1] PROVE KeysStep(f, m) = KeysStep(h, m)
    <3>1. CASE m = Nil
      BY <3>1, NilFields DEF KeysStep
    <3>2. CASE m # Nil
      <4>1. m.left \in Shapes[d] /\ m.right \in Shapes[d]
        BY <3>2, ShapesNext
      <4> HIDE DEF h
      <4>2. f[m.left] = h[m.left] /\ f[m.right] = h[m.right]
        BY <2>3, <4>1
      <4> QED BY <4>2 DEF KeysStep
    <3> QED BY <3>1, <3>2
  <2>5. h = [m \in Shapes[d + 1] |-> KeysStep(h, m)]
    BY <2>4
  <2> HIDE DEF h
  <2> QED BY <2>2, <2>5
<1>3. Nat \subseteq P
  <2> HIDE DEF P
  <2> QED BY <1>1, <1>2, NatSetInduction
<1> QED BY <1>3, CardKeys DEF Trees

\* get_keys is what its recursive definition says.
LEMMA KeysUnfold ==
  ASSUME NEW n \in Trees
  PROVE  GetKeysRec(n) =
           IF IsNil(n) THEN <<>>
           ELSE GetKeysRec(n.left) \o <<n.key>> \o GetKeysRec(n.right)
<1> DEFINE f == CHOOSE g : g = [m \in Trees |-> KeysStep(g, m)]
<1>1. f = [m \in Trees |-> KeysStep(f, m)]
  BY KeysExists
<1>2. \A m : GetKeysRec(m) = f[m]
  BY DEF GetKeysRec, KeysStep
<1> HIDE DEF f
<1>3. f[n] = KeysStep(f, n)
  BY <1>1
<1> QED BY <1>2, <1>3 DEF KeysStep

\* The nodes of m, given those of the children of m.
NodesStep(f, m) ==
  IF IsNil(m) THEN {} ELSE {m} \cup f[m.left] \cup f[m.right]

\* There is a function on Trees that NodesStep describes.
LEMMA NodesExists ==
  \E f : f = [m \in Trees |-> NodesStep(f, m)]
<1> DEFINE P == {d \in Nat : \E f : f = [m \in Shapes[d] |-> NodesStep(f, m)]}
<1>1. 0 \in P
  <2> DEFINE h == [m \in Shapes[0] |-> NodesStep(0, m)]
  <2>1. \A m \in Shapes[0] : NodesStep(0, m) = NodesStep(h, m)
    <3>1. \A m \in Shapes[0] : m = Nil /\ IsNil(m)
      BY ShapesStart, NilFields
    <3> HIDE DEF h
    <3> QED BY <3>1, NilFields DEF NodesStep
  <2>2. h = [m \in Shapes[0] |-> NodesStep(h, m)]
    BY <2>1
  <2> HIDE DEF h
  <2> QED BY <2>2
<1>2. ASSUME NEW d \in Nat, d \in P PROVE d + 1 \in P
  <2>1. PICK f : f = [m \in Shapes[d] |-> NodesStep(f, m)]
    BY <1>2
  <2> DEFINE h == [m \in Shapes[d + 1] |-> NodesStep(f, m)]
  <2>2. d + 1 \in Nat /\ d <= d + 1
    OBVIOUS
  <2>3. \A m \in Shapes[d] : m \in Shapes[d + 1] /\ f[m] = h[m]
    BY <2>1, <2>2, ShapesGrow
  <2>4. ASSUME NEW m \in Shapes[d + 1] PROVE NodesStep(f, m) = NodesStep(h, m)
    <3>1. CASE m = Nil
      BY <3>1, NilFields DEF NodesStep
    <3>2. CASE m # Nil
      <4>1. m.left \in Shapes[d] /\ m.right \in Shapes[d]
        BY <3>2, ShapesNext
      <4> HIDE DEF h
      <4>2. f[m.left] = h[m.left] /\ f[m.right] = h[m.right]
        BY <2>3, <4>1
      <4> QED BY <4>2 DEF NodesStep
    <3> QED BY <3>1, <3>2
  <2>5. h = [m \in Shapes[d + 1] |-> NodesStep(h, m)]
    BY <2>4
  <2> HIDE DEF h
  <2> QED BY <2>2, <2>5
<1>3. Nat \subseteq P
  <2> HIDE DEF P
  <2> QED BY <1>1, <1>2, NatSetInduction
<1> QED BY <1>3, CardKeys DEF Trees

\* Nodes is what its recursive definition says.
LEMMA NodesUnfold ==
  ASSUME NEW n \in Trees
  PROVE  Nodes(n) =
           IF IsNil(n) THEN {} ELSE {n} \cup Nodes(n.left) \cup Nodes(n.right)
<1> DEFINE f == CHOOSE g : g = [m \in Trees |-> NodesStep(g, m)]
<1>1. f = [m \in Trees |-> NodesStep(f, m)]
  BY NodesExists
<1>2. \A m : Nodes(m) = f[m]
  BY DEF Nodes, NodesStep
<1> HIDE DEF f
<1>3. f[n] = NodesStep(f, n)
  BY <1>1
<1> QED BY <1>2, <1>3 DEF NodesStep

\* get_proof_rec at m, given what it returns for the children of m.
ProofStep(f, k, m) ==
  IF IsNil(m) THEN Nonexist(NoProof, NoProof)
  ELSE IF m.key = k THEN Exist(GetLocalExistenceProof(m))
  ELSE LET goLeft == m.key > k
           inner == IF goLeft
                    THEN InnerOp(<<>>, <<m.hash, ChildHash(m.right)>>)
                    ELSE InnerOp(<<ChildHash(m.left), m.hash>>, <<>>)
           sub == IF goLeft THEN f[m.left] ELSE f[m.right]
           here == GetLocalExistenceProof(m)
       IN  IF sub.exist THEN Exist(PushOp(sub.proof, inner))
           ELSE Nonexist(IF ~goLeft /\ sub.left = NoProof THEN here
                         ELSE PushOp(sub.left, inner),
                         IF goLeft /\ sub.right = NoProof THEN here
                         ELSE PushOp(sub.right, inner))

\* There is a function on Trees that ProofStep describes.
LEMMA ProofExists ==
  ASSUME NEW k
  PROVE  \E f : f = [m \in Trees |-> ProofStep(f, k, m)]
<1> DEFINE P == {d \in Nat : \E f : f = [m \in Shapes[d] |-> ProofStep(f, k, m)]}
<1>1. 0 \in P
  <2> DEFINE h == [m \in Shapes[0] |-> ProofStep(0, k, m)]
  <2>1. \A m \in Shapes[0] : ProofStep(0, k, m) = ProofStep(h, k, m)
    <3>1. \A m \in Shapes[0] : m = Nil /\ IsNil(m)
      BY ShapesStart, NilFields
    <3> HIDE DEF h
    <3> QED BY <3>1, NilFields DEF ProofStep
  <2>2. h = [m \in Shapes[0] |-> ProofStep(h, k, m)]
    BY <2>1
  <2> HIDE DEF h
  <2> QED BY <2>2
<1>2. ASSUME NEW d \in Nat, d \in P PROVE d + 1 \in P
  <2>1. PICK f : f = [m \in Shapes[d] |-> ProofStep(f, k, m)]
    BY <1>2
  <2> DEFINE h == [m \in Shapes[d + 1] |-> ProofStep(f, k, m)]
  <2>2. d + 1 \in Nat /\ d <= d + 1
    OBVIOUS
  <2>3. \A m \in Shapes[d] : m \in Shapes[d + 1] /\ f[m] = h[m]
    BY <2>1, <2>2, ShapesGrow
  <2>4. ASSUME NEW m \in Shapes[d + 1] PROVE ProofStep(f, k, m) = ProofStep(h, k, m)
    <3>1. CASE m = Nil
      BY <3>1, NilFields DEF ProofStep
    <3>2. CASE m # Nil
      <4>1. m.left \in Shapes[d] /\ m.right \in Shapes[d]
        BY <3>2, ShapesNext
      <4> HIDE DEF h
      <4>2. f[m.left] = h[m.left] /\ f[m.right] = h[m.right]
        BY <2>3, <4>1
      <4> QED BY <4>2 DEF ProofStep
    <3> QED BY <3>1, <3>2
  <2>5. h = [m \in Shapes[d + 1] |-> ProofStep(h, k, m)]
    BY <2>4
  <2> HIDE DEF h
  <2> QED BY <2>2, <2>5
<1>3. Nat \subseteq P
  <2> HIDE DEF P
  <2> QED BY <1>1, <1>2, NatSetInduction
<1> QED BY <1>3, CardKeys DEF Trees

\* get_proof_rec is what its recursive definition says.
LEMMA ProofUnfold ==
  ASSUME NEW n \in Trees, NEW k
  PROVE  GetProofRec(k, n) =
  IF IsNil(n) THEN Nonexist(NoProof, NoProof)
  ELSE IF n.key = k THEN Exist(GetLocalExistenceProof(n))
  ELSE LET goLeft == n.key > k
           inner == IF goLeft
                    THEN InnerOp(<<>>, <<n.hash, ChildHash(n.right)>>)
                    ELSE InnerOp(<<ChildHash(n.left), n.hash>>, <<>>)
           sub == IF goLeft THEN GetProofRec(k, n.left) ELSE GetProofRec(k, n.right)
           here == GetLocalExistenceProof(n)
       IN  IF sub.exist THEN Exist(PushOp(sub.proof, inner))
           ELSE Nonexist(IF ~goLeft /\ sub.left = NoProof THEN here
                         ELSE PushOp(sub.left, inner),
                         IF goLeft /\ sub.right = NoProof THEN here
                         ELSE PushOp(sub.right, inner))
<1> DEFINE f == CHOOSE g : g = [m \in Trees |-> ProofStep(g, k, m)]
<1>1. f = [m \in Trees |-> ProofStep(f, k, m)]
  BY ProofExists
<1>2. \A m : GetProofRec(k, m) = f[m]
  BY DEF GetProofRec, ProofStep
<1> HIDE DEF f
<1>3. f[n] = ProofStep(f, k, n)
  BY <1>1
<1> QED BY <1>2, <1>3 DEF ProofStep

-----------------------------------------------------------------------------
(* Lookup, insertion and removal. *)

\* The keys on a path of a tree in order are distinct, so it is no deeper
\* than there are keys: the recursive functions are defined for it.
LEMMA AvlInTrees == Avl \subseteq Trees
<1> DEFINE P == {n \in Forest : n \in Avl =>
                   \A S \in SUBSET Keys : (\A e \in Entries(n) : e[1] \in S) =>
                     /\ n \in Shapes[Cardinality(S)]
                     /\ ChildHash(n) \in Digests[Cardinality(S)]}
<1>1. \A S \in SUBSET Keys : IsFiniteSet(S) /\ Cardinality(S) \in Nat
  BY KeysAssumption, FS_Subset, FS_CardinalityType
<1>2. \A c \in Nat : Nil \in Shapes[c] /\ EmptyChild \in Digests[c]
  BY ShapesUnfold, DigestsUnfold DEF ShapeStep, DigestStep
<1>3. Nil \in P
  BY <1>1, <1>2, NilFields DEF ChildHash
<1>4. ASSUME NEW n \in Branch, n.left \in P, n.right \in P PROVE n \in P
  <2> SUFFICES ASSUME n \in Avl, NEW S \in SUBSET Keys, \A e \in Entries(n) : e[1] \in S
               PROVE  /\ n \in Shapes[Cardinality(S)]
                      /\ ChildHash(n) \in Digests[Cardinality(S)]
    BY BranchFields
  <2> DEFINE T == S \ {n.key}
             c == Cardinality(T)
  <2>1. n \in Unsettled /\ Settled(n)
    BY AvlUnfold
  <2>2. Entries(n) = Entries(n.left) \cup {<<n.key, n.value>>} \cup Entries(n.right)
    BY EntriesUnfold
  <2>3. n.key \in S
    <3>1. <<n.key, n.value>> \in Entries(n) /\ <<n.key, n.value>>[1] = n.key
      BY <2>2
    <3> QED BY <3>1
  <2>4. c \in Nat /\ Cardinality(S) = c + 1
    <3>1. Cardinality(S) \in Nat /\ IsFiniteSet(S) /\ T \in SUBSET Keys
      BY <1>1
    <3>2. c = Cardinality(S) - 1 /\ c \in Nat
      BY <1>1, <2>3, <3>1, FS_RemoveElement
    <3> QED BY <3>1, <3>2
  <2>5. n.key \in Nat
    BY BranchFields
  <2>6. (\A e \in Entries(n.left) : e[1] \in T) /\ (\A e \in Entries(n.right) : e[1] \in T)
    BY <2>1, <2>2, <2>5, EntryTypes DEF Unsettled, InOrder, Below, Above
  <2>7. /\ n.left \in Shapes[c] /\ n.right \in Shapes[c]
        /\ ChildHash(n.left) \in Digests[c] /\ ChildHash(n.right) \in Digests[c]
    BY <1>4, <2>1, <2>6 DEF Unsettled
  <2> HIDE DEF c
  <2>8. n.merkle \in Digests[c + 1]
    <3>1. n.merkle = <<ChildHash(n.left), n.hash, ChildHash(n.right)>>
      BY <2>1 DEF Settled, UpdateHashes
    <3> QED BY <2>4, <2>7, <3>1, BranchFields, DigestsNext
  <2>9. n \in Shapes[c + 1]
    <3>1. n \in [key : Keys, value : Vals, hash : Keys \X Vals,
                 merkle : Digests[c + 1], height : Nat,
                 left : Shapes[c], right : Shapes[c]]
      BY <2>7, <2>8 DEF Branch
    <3> QED BY <2>4, <3>1, ShapesNext
  <2>10. ChildHash(n) = n.merkle
    BY BranchFields DEF ChildHash
  <2> QED BY <2>4, <2>8, <2>9, <2>10
<1>5. Forest \subseteq P
  <2> HIDE DEF P
  <2> QED BY <1>3, <1>4, ForestInduction
<1>6. \A n : \A e \in Entries(n) : e[1] \in Keys
  BY EntryTypes
<1> QED BY <1>5, <1>6, AvlInForest DEF Trees

\* The cases of a proof about a tree in order.
LEMMA AvlCases ==
  ASSUME NEW n \in Avl
  PROVE  /\ n \in Forest /\ n \in Trees
         /\ IsNil(n) => n = Nil /\ Entries(n) = {}
         /\ ~ IsNil(n) =>
              /\ n \in Branch /\ n \in Unsettled /\ Settled(n)
              /\ n.left \in Avl /\ n.right \in Avl
              /\ n.left \in Forest /\ n.right \in Forest
              /\ n.key \in Nat /\ n.key # 0
              /\ Entries(n) = Entries(n.left) \cup {<<n.key, n.value>>} \cup Entries(n.right)
              /\ \A e \in Entries(n.left) : e[1] \in Nat /\ e[1] < n.key
              /\ \A e \in Entries(n.right) : e[1] \in Nat /\ e[1] > n.key
<1>1. n \in Forest /\ n \in Trees
  BY AvlInForest, AvlInTrees
<1>2. IsNil(n) => n = Nil /\ Entries(n) = {}
  BY <1>1, IsNilOrBranch, EntriesOfNil
<1>3. ASSUME ~ IsNil(n)
      PROVE  /\ n \in Branch /\ n \in Unsettled /\ Settled(n)
             /\ n.left \in Avl /\ n.right \in Avl
             /\ n.left \in Forest /\ n.right \in Forest
             /\ n.key \in Nat /\ n.key # 0
             /\ Entries(n) = Entries(n.left) \cup {<<n.key, n.value>>} \cup Entries(n.right)
             /\ \A e \in Entries(n.left) : e[1] \in Nat /\ e[1] < n.key
             /\ \A e \in Entries(n.right) : e[1] \in Nat /\ e[1] > n.key
  <2>1. n \in Branch
    BY <1>1, <1>3, IsNilOrBranch
  <2>2. n \in Unsettled /\ Settled(n)
    BY <2>1, AvlUnfold
  <2> QED BY <2>1, <2>2, BranchFields, EntriesUnfold, EntryTypes
          DEF Unsettled, InOrder, Below, Above
<1> QED BY <1>1, <1>2, <1>3

\* get finds the value of a key, and 0 for a key that is not there.
LEMMA GetLemma ==
  ASSUME NEW n \in Avl, NEW k \in Nat
  PROVE  /\ \A v : <<k, v>> \in Entries(n) => TreeGet(n, k) = v
         /\ (\A v : <<k, v>> \notin Entries(n)) => TreeGet(n, k) = 0
<1> DEFINE P == {m \in Forest : m \in Avl =>
                   /\ \A v : <<k, v>> \in Entries(m) => TreeGet(m, k) = v
                   /\ (\A v : <<k, v>> \notin Entries(m)) => TreeGet(m, k) = 0}
<1>1. Nil \in P
  BY NilFields, EntriesOfNil, GetOfNil
<1>2. ASSUME NEW m \in Branch, m.left \in P, m.right \in P PROVE m \in P
  <2> SUFFICES ASSUME m \in Avl
               PROVE  /\ \A v : <<k, v>> \in Entries(m) => TreeGet(m, k) = v
                      /\ (\A v : <<k, v>> \notin Entries(m)) => TreeGet(m, k) = 0
    BY BranchFields
  <2>1. ~ IsNil(m) /\ m.left \in Avl /\ m.right \in Avl /\ m.key \in Nat /\ m \in Trees
    BY BranchFields, AvlCases
  <2>2. Entries(m) = Entries(m.left) \cup {<<m.key, m.value>>} \cup Entries(m.right)
    BY <2>1, AvlCases
  <2>3. /\ \A v : <<k, v>> \in Entries(m.left) => k < m.key
        /\ \A v : <<k, v>> \in Entries(m.right) => k > m.key
    <3>1. \A v : <<k, v>>[1] = k
      OBVIOUS
    <3> QED BY <2>1, <3>1, AvlCases
  <2>4. CASE m.key > k
    <3>1. TreeGet(m, k) = TreeGet(m.left, k)
      BY <2>1, <2>4, GetUnfold
    <3>2. \A v : <<k, v>> \in Entries(m) <=> <<k, v>> \in Entries(m.left)
      BY <2>1, <2>2, <2>3, <2>4
    <3> QED BY <1>2, <2>1, <3>1, <3>2
  <2>5. CASE m.key < k
    <3>1. TreeGet(m, k) = TreeGet(m.right, k)
      BY <2>1, <2>5, GetUnfold
    <3>2. \A v : <<k, v>> \in Entries(m) <=> <<k, v>> \in Entries(m.right)
      BY <2>1, <2>2, <2>3, <2>5
    <3> QED BY <1>2, <2>1, <3>1, <3>2
  <2>6. CASE m.key = k
    <3>1. TreeGet(m, k) = m.value
      BY <2>1, <2>6, GetUnfold
    <3>2. \A v : <<k, v>> \in Entries(m) <=> v = m.value
      BY <2>1, <2>2, <2>3, <2>6
    <3> QED BY <3>1, <3>2
  <2> QED BY <2>1, <2>4, <2>5, <2>6
<1>3. Forest \subseteq P
  <2> HIDE DEF P
  <2> QED BY <1>1, <1>2, ForestInduction
<1> QED BY <1>3, AvlInForest

\* insert changes what the key stands for and nothing else.
LEMMA InsertLemma ==
  ASSUME NEW n \in Avl, NEW k \in Keys, NEW v \in Vals
  PROVE  /\ InsertRec(n, k, v) \in Branch /\ InsertRec(n, k, v) \in Avl
         /\ Entries(InsertRec(n, k, v)) = {e \in Entries(n) : e[1] # k} \cup {<<k, v>>}
<1>0. k \in Nat /\ k # 0 /\ v \in Nat /\ v # 0
  BY KeysAssumption, ValsAssumption
<1> DEFINE Good(m, r) == /\ r \in Branch /\ r \in Avl
                         /\ Entries(r) = {e \in Entries(m) : e[1] # k} \cup {<<k, v>>}
           P == {m \in Forest : m \in Avl => Good(m, InsertRec(m, k, v))}
<1>1. Nil \in P
  <2> DEFINE r == AsNodeRef(k, v)
  <2>1. InsertRec(Nil, k, v) = r
    BY InsertUnfold, TreesUnfold, NilFields
  <2>2. r \in Branch /\ r.left = Nil /\ r.right = Nil
    BY NilFields, DigestUnfold DEF AsNodeRef, Branch, LocalHash
  <2>3. Settled(r) /\ InOrder(r) /\ r.key = k /\ r.value = v
    BY NilFields, EntriesOfNil
    DEF AsNodeRef, Settled, InOrder, Below, Above, UpdateHeight, UpdateHashes, ChildHash
  <2> HIDE DEF r
  <2>4. r \in Avl
    BY <2>2, <2>3, NilIsAvl, AvlUnfold DEF Unsettled
  <2>5. Entries(r) = {<<k, v>>}
    BY <2>2, <2>3, EntriesUnfold, EntriesOfNil
  <2> QED BY <2>1, <2>2, <2>4, <2>5, NilFields, EntriesOfNil
<1>2. ASSUME NEW m \in Branch, m.left \in P, m.right \in P PROVE m \in P
  <2> SUFFICES ASSUME m \in Avl PROVE Good(m, InsertRec(m, k, v))
    BY BranchFields
  <2>1. /\ ~ IsNil(m) /\ m \in Trees /\ m \in Unsettled
        /\ m.left \in Avl /\ m.right \in Avl /\ m.key \in Nat
    BY BranchFields, AvlCases
  <2>2. Entries(m) = Entries(m.left) \cup {<<m.key, m.value>>} \cup Entries(m.right)
    BY <2>1, AvlCases
  <2>3. /\ \A e \in Entries(m.left) : e[1] \in Nat /\ e[1] < m.key
        /\ \A e \in Entries(m.right) : e[1] \in Nat /\ e[1] > m.key
    BY <2>1, AvlCases
  <2>4. /\ \A x, y : <<x, y>>[1] = x
        /\ <<m.key, m.value>>[1] = m.key
    OBVIOUS
  <2>5. ASSUME NEW x \in Unsettled,
               Entries(x) = {e \in Entries(m) : e[1] # k} \cup {<<k, v>>},
               InsertRec(m, k, v) = BalanceNode(Update(x))
        PROVE  Good(m, InsertRec(m, k, v))
    <3>1. Update(x) \in Branch /\ Update(x) \in Avl /\ Entries(Update(x)) = Entries(x)
      BY UpdateLemma
    <3>2. /\ BalanceNode(Update(x)) \in Branch /\ BalanceNode(Update(x)) \in Avl
          /\ Entries(BalanceNode(Update(x))) = Entries(Update(x))
      BY <3>1, BalanceLemma
    <3> QED BY <2>5, <3>1, <3>2
  <2>6. CASE m.key > k
    <3> DEFINE t == InsertRec(m.left, k, v)
               x == [m EXCEPT !.left = t]
    <3>1. InsertRec(m, k, v) = BalanceNode(Update(x))
      <4>1. m.key > k
        BY <1>0, <2>1, <2>6
      <4> HIDE DEF Good
      <4> QED BY <2>1, <4>1, InsertUnfold
    <3>2. t \in Avl /\ Entries(t) = {e \in Entries(m.left) : e[1] # k} \cup {<<k, v>>}
      BY <1>2, <2>1
    <3> HIDE DEF t
    <3>3. Below(t, m.key)
      BY <2>3, <2>4, <2>6, <3>2 DEF Below, Above
    <3>4. /\ x \in Unsettled
          /\ Entries(x) = Entries(t) \cup {<<m.key, m.value>>} \cup Entries(m.right)
      BY <2>1, <3>2, <3>3, PutLeft
    <3> HIDE DEF x
    <3>5. Entries(x) = {e \in Entries(m) : e[1] # k} \cup {<<k, v>>}
      <4>1. <<m.key, m.value>>[1] # k /\ \A e \in Entries(m.right) : e[1] # k
        BY <1>0, <2>1, <2>3, <2>4, <2>6
      <4> QED BY <2>2, <3>2, <3>4, <4>1
    <3> QED BY <2>5, <3>1, <3>4, <3>5
  <2>7. CASE m.key < k
    <3> DEFINE t == InsertRec(m.right, k, v)
               x == [m EXCEPT !.right = t]
    <3>1. InsertRec(m, k, v) = BalanceNode(Update(x))
      <4>1. m.key < k /\ ~ (m.key > k)
        BY <1>0, <2>1, <2>7
      <4> HIDE DEF Good
      <4> QED BY <2>1, <4>1, InsertUnfold
    <3>2. t \in Avl /\ Entries(t) = {e \in Entries(m.right) : e[1] # k} \cup {<<k, v>>}
      BY <1>2, <2>1
    <3> HIDE DEF t
    <3>3. Above(t, m.key)
      BY <2>3, <2>4, <2>7, <3>2 DEF Below, Above
    <3>4. /\ x \in Unsettled
          /\ Entries(x) = Entries(t) \cup {<<m.key, m.value>>} \cup Entries(m.left)
      BY <2>1, <3>2, <3>3, PutRight
    <3> HIDE DEF x
    <3>5. Entries(x) = {e \in Entries(m) : e[1] # k} \cup {<<k, v>>}
      <4>1. <<m.key, m.value>>[1] # k /\ \A e \in Entries(m.left) : e[1] # k
        BY <1>0, <2>1, <2>3, <2>4, <2>7
      <4> QED BY <2>2, <3>2, <3>4, <4>1
    <3> QED BY <2>5, <3>1, <3>4, <3>5
  <2>8. CASE m.key = k
    <3> DEFINE x == SetValue(m, v)
    <3>1. InsertRec(m, k, v) = BalanceNode(Update(x))
      <4>1. ~ (m.key > k) /\ ~ (m.key < k)
        BY <1>0, <2>1, <2>8
      <4> QED BY <2>1, <4>1, InsertUnfold
    <3>2. /\ x \in Branch /\ x.left = m.left /\ x.right = m.right
          /\ x.key = m.key /\ x.value = v /\ x.hash = LocalHash(m.key, v)
      BY <2>8 DEF SetValue, Branch, LocalHash
    <3> HIDE DEF x
    <3>3. x \in Unsettled
      BY <2>1, <3>2 DEF Unsettled, InOrder
    <3>4. Entries(x) = Entries(m.left) \cup {<<k, v>>} \cup Entries(m.right)
      BY <2>8, <3>2, EntriesUnfold
    <3>5. Entries(x) = {e \in Entries(m) : e[1] # k} \cup {<<k, v>>}
      <4>1. /\ \A e \in Entries(m.left) : e[1] # k
            /\ \A e \in Entries(m.right) : e[1] # k
        BY <1>0, <2>3, <2>8
      <4> QED BY <2>2, <2>4, <2>8, <3>4, <4>1
    <3> QED BY <2>5, <3>1, <3>3, <3>5
  <2> QED BY <1>0, <2>1, <2>6, <2>7, <2>8
<1>3. Forest \subseteq P
  <2> HIDE DEF P
  <2> QED BY <1>1, <1>2, ForestInduction
<1> QED BY <1>3, AvlInForest

\* RemoveLeftmost takes out the node with the lowest key and leaves the rest.
LEMMA RemoveLeftmostLemma ==
  ASSUME NEW n \in Avl, ~ IsNil(n)
  PROVE  LET r == RemoveLeftmost(n)
         IN  /\ r.rest \in Avl
             /\ r.removed \in Branch
             /\ r.removed.hash = LocalHash(r.removed.key, r.removed.value)
             /\ Entries(n) = Entries(r.rest) \cup {<<r.removed.key, r.removed.value>>}
             /\ Above(r.rest, r.removed.key)
<1> DEFINE Good(m, r) ==
             /\ r.rest \in Avl
             /\ r.removed \in Branch
             /\ r.removed.hash = LocalHash(r.removed.key, r.removed.value)
             /\ Entries(m) = Entries(r.rest) \cup {<<r.removed.key, r.removed.value>>}
             /\ Above(r.rest, r.removed.key)
           P == {m \in Forest : m \in Avl /\ ~ IsNil(m) => Good(m, RemoveLeftmost(m))}
<1>1. Nil \in P
  BY NilFields
<1>2. ASSUME NEW m \in Branch, m.left \in P, m.right \in P PROVE m \in P
  <2> SUFFICES ASSUME m \in Avl PROVE Good(m, RemoveLeftmost(m))
    BY BranchFields
  <2>1. /\ ~ IsNil(m) /\ m \in Trees \ {Nil} /\ m \in Unsettled
        /\ m.left \in Avl /\ m.right \in Avl /\ m.key \in Nat
    BY BranchFields, AvlCases
  <2>2. Entries(m) = Entries(m.left) \cup {<<m.key, m.value>>} \cup Entries(m.right)
    BY <2>1, AvlCases
  <2>3. /\ \A e \in Entries(m.left) : e[1] \in Nat /\ e[1] < m.key
        /\ \A e \in Entries(m.right) : e[1] \in Nat /\ e[1] > m.key
    BY <2>1, AvlCases
  <2>4. CASE IsNil(m.left)
    <3> DEFINE x == [m EXCEPT !.right = Nil]
    <3>1. RemoveLeftmost(m) = [rest |-> m.right, removed |-> x]
      BY <2>1, <2>4, LeftmostUnfold
    <3>2. x \in Branch /\ x.key = m.key /\ x.value = m.value /\ x.hash = m.hash
      BY NilFields, SetRight
    <3> HIDE DEF x
    <3>3. /\ RemoveLeftmost(m).rest = m.right /\ RemoveLeftmost(m).removed = x
      BY <3>1
    <3>4. Entries(m.left) = {}
      BY <2>1, <2>4, AvlCases
    <3>5. Entries(m) = Entries(m.right) \cup {<<x.key, x.value>>}
      BY <2>2, <3>2, <3>4
    <3>6. Above(m.right, x.key)
      BY <2>3, <3>2 DEF Below, Above
    <3>7. x.hash = LocalHash(x.key, x.value)
      BY <2>1, <3>2 DEF Unsettled, InOrder
    <3> QED BY <2>1, <3>2, <3>3, <3>5, <3>6, <3>7
  <2>5. CASE ~ IsNil(m.left)
    <3> DEFINE t == RemoveLeftmost(m.left)
               x == [m EXCEPT !.left = t.rest]
    <3>1. /\ RemoveLeftmost(m).rest = BalanceNode(Update(x))
          /\ RemoveLeftmost(m).removed = t.removed
      BY <2>1, <2>5, LeftmostUnfold
    <3>2. Good(m.left, t)
      BY <1>2, <2>1, <2>5
    <3> HIDE DEF t
    <3>3. Below(t.rest, m.key)
      BY <2>3, <3>2 DEF Below, Above
    <3>4. /\ x \in Unsettled
          /\ Entries(x) = Entries(t.rest) \cup {<<m.key, m.value>>} \cup Entries(m.right)
      BY <2>1, <3>2, <3>3, PutLeft
    <3> HIDE DEF x
    <3>5. Update(x) \in Branch /\ Update(x) \in Avl /\ Entries(Update(x)) = Entries(x)
      BY <3>4, UpdateLemma
    <3>6. RemoveLeftmost(m).rest \in Avl /\ Entries(RemoveLeftmost(m).rest) = Entries(x)
      BY <3>1, <3>5, BalanceLemma
    <3> DEFINE q == t.removed
    <3>7. /\ q \in Branch /\ q.hash = LocalHash(q.key, q.value)
          /\ Entries(m.left) = Entries(t.rest) \cup {<<q.key, q.value>>}
          /\ Above(t.rest, q.key)
          /\ RemoveLeftmost(m).removed = q
      BY <3>1, <3>2
    <3> HIDE DEF q
    <3>8. Entries(m) = Entries(RemoveLeftmost(m).rest) \cup {<<q.key, q.value>>}
      BY <2>2, <3>4, <3>6, <3>7
    <3>9. q.key < m.key /\ q.key \in Nat
      <4>1. <<q.key, q.value>> \in Entries(m.left) /\ <<q.key, q.value>>[1] = q.key
        BY <3>7
      <4> QED BY <2>3, <4>1
    <3>10. Above(RemoveLeftmost(m).rest, q.key)
      <4> SUFFICES ASSUME NEW e \in Entries(x) PROVE e[1] > q.key
        BY <3>6 DEF Above, Below
      <4>1. CASE e \in Entries(t.rest)
        BY <3>7, <4>1 DEF Above, Below
      <4>2. CASE e = <<m.key, m.value>>
        BY <2>1, <3>9, <4>2
      <4>3. CASE e \in Entries(m.right)
        BY <2>1, <2>3, <3>9, <4>3
      <4> QED BY <3>4, <4>1, <4>2, <4>3
    <3> QED BY <3>6, <3>7, <3>8, <3>10
  <2> QED BY <2>4, <2>5
<1>3. Forest \subseteq P
  <2> HIDE DEF P
  <2> QED BY <1>1, <1>2, ForestInduction
<1>4. Good(n, RemoveLeftmost(n))
  BY <1>3, AvlInForest
<1> QED BY <1>4

\* RemoveRightmost takes out the node with the highest key and leaves the rest.
LEMMA RemoveRightmostLemma ==
  ASSUME NEW n \in Avl, ~ IsNil(n)
  PROVE  LET r == RemoveRightmost(n)
         IN  /\ r.rest \in Avl
             /\ r.removed \in Branch
             /\ r.removed.hash = LocalHash(r.removed.key, r.removed.value)
             /\ Entries(n) = Entries(r.rest) \cup {<<r.removed.key, r.removed.value>>}
             /\ Below(r.rest, r.removed.key)
<1> DEFINE Good(m, r) ==
             /\ r.rest \in Avl
             /\ r.removed \in Branch
             /\ r.removed.hash = LocalHash(r.removed.key, r.removed.value)
             /\ Entries(m) = Entries(r.rest) \cup {<<r.removed.key, r.removed.value>>}
             /\ Below(r.rest, r.removed.key)
           P == {m \in Forest : m \in Avl /\ ~ IsNil(m) => Good(m, RemoveRightmost(m))}
<1>1. Nil \in P
  BY NilFields
<1>2. ASSUME NEW m \in Branch, m.left \in P, m.right \in P PROVE m \in P
  <2> SUFFICES ASSUME m \in Avl PROVE Good(m, RemoveRightmost(m))
    BY BranchFields
  <2>1. /\ ~ IsNil(m) /\ m \in Trees \ {Nil} /\ m \in Unsettled
        /\ m.left \in Avl /\ m.right \in Avl /\ m.key \in Nat
    BY BranchFields, AvlCases
  <2>2. Entries(m) = Entries(m.left) \cup {<<m.key, m.value>>} \cup Entries(m.right)
    BY <2>1, AvlCases
  <2>3. /\ \A e \in Entries(m.right) : e[1] \in Nat /\ e[1] > m.key
        /\ \A e \in Entries(m.left) : e[1] \in Nat /\ e[1] < m.key
    BY <2>1, AvlCases
  <2>4. CASE IsNil(m.right)
    <3> DEFINE x == [m EXCEPT !.left = Nil]
    <3>1. RemoveRightmost(m) = [rest |-> m.left, removed |-> x]
      BY <2>1, <2>4, RightmostUnfold
    <3>2. x \in Branch /\ x.key = m.key /\ x.value = m.value /\ x.hash = m.hash
      BY NilFields, SetLeft
    <3> HIDE DEF x
    <3>3. /\ RemoveRightmost(m).rest = m.left /\ RemoveRightmost(m).removed = x
      BY <3>1
    <3>4. Entries(m.right) = {}
      BY <2>1, <2>4, AvlCases
    <3>5. Entries(m) = Entries(m.left) \cup {<<x.key, x.value>>}
      BY <2>2, <3>2, <3>4
    <3>6. Below(m.left, x.key)
      BY <2>3, <3>2 DEF Below, Above
    <3>7. x.hash = LocalHash(x.key, x.value)
      BY <2>1, <3>2 DEF Unsettled, InOrder
    <3> QED BY <2>1, <3>2, <3>3, <3>5, <3>6, <3>7
  <2>5. CASE ~ IsNil(m.right)
    <3> DEFINE t == RemoveRightmost(m.right)
               x == [m EXCEPT !.right = t.rest]
    <3>1. /\ RemoveRightmost(m).rest = BalanceNode(Update(x))
          /\ RemoveRightmost(m).removed = t.removed
      BY <2>1, <2>5, RightmostUnfold
    <3>2. Good(m.right, t)
      BY <1>2, <2>1, <2>5
    <3> HIDE DEF t
    <3>3. Above(t.rest, m.key)
      BY <2>3, <3>2 DEF Below, Above
    <3>4. /\ x \in Unsettled
          /\ Entries(x) = Entries(t.rest) \cup {<<m.key, m.value>>} \cup Entries(m.left)
      BY <2>1, <3>2, <3>3, PutRight
    <3> HIDE DEF x
    <3>5. Update(x) \in Branch /\ Update(x) \in Avl /\ Entries(Update(x)) = Entries(x)
      BY <3>4, UpdateLemma
    <3>6. RemoveRightmost(m).rest \in Avl /\ Entries(RemoveRightmost(m).rest) = Entries(x)
      BY <3>1, <3>5, BalanceLemma
    <3> DEFINE q == t.removed
    <3>7. /\ q \in Branch /\ q.hash = LocalHash(q.key, q.value)
          /\ Entries(m.right) = Entries(t.rest) \cup {<<q.key, q.value>>}
          /\ Below(t.rest, q.key)
          /\ RemoveRightmost(m).removed = q
      BY <3>1, <3>2
    <3> HIDE DEF q
    <3>8. Entries(m) = Entries(RemoveRightmost(m).rest) \cup {<<q.key, q.value>>}
      BY <2>2, <3>4, <3>6, <3>7
    <3>9. q.key > m.key /\ q.key \in Nat
      <4>1. <<q.key, q.value>> \in Entries(m.right) /\ <<q.key, q.value>>[1] = q.key
        BY <3>7
      <4> QED BY <2>3, <4>1
    <3>10. Below(RemoveRightmost(m).rest, q.key)
      <4> SUFFICES ASSUME NEW e \in Entries(x) PROVE e[1] < q.key
        BY <3>6 DEF Above, Below
      <4>1. CASE e \in Entries(t.rest)
        BY <3>7, <4>1 DEF Above, Below
      <4>2. CASE e = <<m.key, m.value>>
        BY <2>1, <3>9, <4>2
      <4>3. CASE e \in Entries(m.left)
        BY <2>1, <2>3, <3>9, <4>3
      <4> QED BY <3>4, <4>1, <4>2, <4>3
    <3> QED BY <3>6, <3>7, <3>8, <3>10
  <2> QED BY <2>4, <2>5
<1>3. Forest \subseteq P
  <2> HIDE DEF P
  <2> QED BY <1>1, <1>2, ForestInduction
<1>4. Good(n, RemoveRightmost(n))
  BY <1>3, AvlInForest
<1> QED BY <1>4

\* What takes the place of a removed root stands for everything else.
LEMMA SubstituteLemma ==
  ASSUME NEW n \in Avl, ~ IsNil(n)
  PROVE  /\ Substitute(n) = Nil \/ Substitute(n) \in Unsettled
         /\ Entries(Substitute(n)) = Entries(n.left) \cup Entries(n.right)
<1>1. /\ n \in Branch /\ n \in Unsettled
      /\ n.left \in Avl /\ n.right \in Avl /\ n.key \in Nat
      /\ \A e \in Entries(n.left) : e[1] \in Nat /\ e[1] < n.key
      /\ \A e \in Entries(n.right) : e[1] \in Nat /\ e[1] > n.key
  BY AvlCases
<1>2. CASE IsNil(n.right)
  BY <1>1, <1>2, AvlCases DEF Substitute
<1>3. CASE ~ IsNil(n.right) /\ IsNil(n.left)
  BY <1>1, <1>3, AvlCases DEF Substitute
<1>4. CASE ~ IsNil(n.right) /\ ~ IsNil(n.left) /\ BalanceFactor(n) <= 0
  <2> DEFINE r == RemoveLeftmost(n.right)
             q == r.removed
             s == [q EXCEPT !.right = r.rest, !.left = n.left]
  <2>1. Substitute(n) = s
    BY <1>4 DEF Substitute
  <2>2. /\ r.rest \in Avl /\ q \in Branch /\ q.hash = LocalHash(q.key, q.value)
        /\ Entries(n.right) = Entries(r.rest) \cup {<<q.key, q.value>>}
        /\ Above(r.rest, q.key)
    BY <1>1, <1>4, RemoveLeftmostLemma
  <2> HIDE DEF q, r
  <2>3. /\ s \in Branch /\ s.right = r.rest /\ s.left = n.left
        /\ s.key = q.key /\ s.value = q.value /\ s.hash = q.hash
    <3>1. r.rest \in Forest /\ n.left \in Forest
      BY <1>1, <2>2, AvlInForest
    <3> QED BY <2>2, <3>1 DEF Branch
  <2> HIDE DEF s
  <2>4. q.key > n.key /\ q.key \in Nat
    <3>1. <<q.key, q.value>> \in Entries(n.right) /\ <<q.key, q.value>>[1] = q.key
      BY <2>2
    <3> QED BY <1>1, <3>1
  <2>5. Below(n.left, q.key)
    <3> SUFFICES ASSUME NEW e \in Entries(n.left) PROVE e[1] < q.key
      BY DEF Below, Above
    <3> QED BY <1>1, <2>4
  <2>6. s \in Unsettled
    BY <1>1, <2>2, <2>3, <2>5 DEF Unsettled, InOrder
  <2>7. Entries(s) = Entries(n.left) \cup Entries(n.right)
    BY <2>2, <2>3, EntriesUnfold
  <2> QED BY <2>1, <2>6, <2>7
<1>5. CASE ~ IsNil(n.right) /\ ~ IsNil(n.left) /\ ~ (BalanceFactor(n) <= 0)
  <2> DEFINE r == RemoveRightmost(n.left)
             q == r.removed
             s == [q EXCEPT !.left = r.rest, !.right = n.right]
  <2>1. Substitute(n) = s
    BY <1>5 DEF Substitute
  <2>2. /\ r.rest \in Avl /\ q \in Branch /\ q.hash = LocalHash(q.key, q.value)
        /\ Entries(n.left) = Entries(r.rest) \cup {<<q.key, q.value>>}
        /\ Below(r.rest, q.key)
    BY <1>1, <1>5, RemoveRightmostLemma
  <2> HIDE DEF q, r
  <2>3. /\ s \in Branch /\ s.left = r.rest /\ s.right = n.right
        /\ s.key = q.key /\ s.value = q.value /\ s.hash = q.hash
    <3>1. r.rest \in Forest /\ n.right \in Forest
      BY <1>1, <2>2, AvlInForest
    <3> QED BY <2>2, <3>1 DEF Branch
  <2> HIDE DEF s
  <2>4. q.key < n.key /\ q.key \in Nat
    <3>1. <<q.key, q.value>> \in Entries(n.left) /\ <<q.key, q.value>>[1] = q.key
      BY <2>2
    <3> QED BY <1>1, <3>1
  <2>5. Above(n.right, q.key)
    <3> SUFFICES ASSUME NEW e \in Entries(n.right) PROVE e[1] > q.key
      BY DEF Below, Above
    <3> QED BY <1>1, <2>4
  <2>6. s \in Unsettled
    BY <1>1, <2>2, <2>3, <2>5 DEF Unsettled, InOrder
  <2>7. Entries(s) = Entries(n.left) \cup Entries(n.right)
    BY <2>2, <2>3, EntriesUnfold
  <2> QED BY <2>1, <2>6, <2>7
<1> QED BY <1>2, <1>3, <1>4, <1>5

\* What is updated and balanced after a removal stands for the same.
LEMMA RebalancedLemma ==
  ASSUME NEW n, n = Nil \/ n \in Unsettled
  PROVE  Rebalanced(n) \in Avl /\ Entries(Rebalanced(n)) = Entries(n)
<1>1. CASE n = Nil
  BY <1>1, NilFields, NilIsAvl DEF Rebalanced
<1>2. CASE n \in Unsettled
  <2>1. ~ IsNil(n)
    BY <1>2, BranchFields DEF Unsettled
  <2>2. Rebalanced(n) = BalanceNode(Update(n))
    BY <2>1 DEF Rebalanced
  <2>3. Update(n) \in Branch /\ Update(n) \in Avl /\ Entries(Update(n)) = Entries(n)
    BY <1>2, UpdateLemma
  <2> QED BY <2>2, <2>3, BalanceLemma
<1> QED BY <1>1, <1>2

\* remove takes out the key and nothing else.
LEMMA RemoveLemma ==
  ASSUME NEW n \in Avl, NEW k \in Keys
  PROVE  /\ RemoveRec(n, k) \in Avl
         /\ Entries(RemoveRec(n, k)) = {e \in Entries(n) : e[1] # k}
<1>0. k \in Nat /\ k # 0
  BY KeysAssumption
<1> DEFINE Good(m, r) == r \in Avl /\ Entries(r) = {e \in Entries(m) : e[1] # k}
           P == {m \in Forest : m \in Avl => Good(m, RemoveRec(m, k))}
<1>1. Nil \in P
  <2>1. RemoveRec(Nil, k) = Nil
    BY GetOfNil, RemoveUnfold, TreesUnfold
  <2> QED BY <2>1, NilFields, NilIsAvl, EntriesOfNil
<1>2. ASSUME NEW m \in Branch, m.left \in P, m.right \in P PROVE m \in P
  <2> SUFFICES ASSUME m \in Avl PROVE Good(m, RemoveRec(m, k))
    BY BranchFields
  <2>1. /\ ~ IsNil(m) /\ m \in Trees /\ m \in Unsettled
        /\ m.left \in Avl /\ m.right \in Avl /\ m.key \in Nat
    BY BranchFields, AvlCases
  <2>2. Entries(m) = Entries(m.left) \cup {<<m.key, m.value>>} \cup Entries(m.right)
    BY <2>1, AvlCases
  <2>3. /\ \A e \in Entries(m.left) : e[1] \in Nat /\ e[1] < m.key
        /\ \A e \in Entries(m.right) : e[1] \in Nat /\ e[1] > m.key
    BY <2>1, AvlCases
  <2>4. <<m.key, m.value>>[1] = m.key
    OBVIOUS
  <2>5. CASE TreeGet(m, k) = 0
    <3>1. RemoveRec(m, k) = m
      BY <2>1, <2>5, RemoveUnfold
    <3>2. \A e \in Entries(m) : e[1] # k
      <4> SUFFICES ASSUME NEW e \in Entries(m), e[1] = k PROVE FALSE
        OBVIOUS
      <4>1. e = <<k, e[2]>> /\ e[2] \in Vals
        BY EntryTypes
      <4>2. TreeGet(m, k) = e[2]
        BY <1>0, <4>1, GetLemma
      <4> QED BY <2>5, <4>1, <4>2, ValsAssumption
    <3> QED BY <3>1, <3>2
  <2>6. CASE TreeGet(m, k) # 0 /\ m.key > k
    <3> DEFINE t == RemoveRec(m.left, k)
               x == [m EXCEPT !.left = t]
    <3>1. RemoveRec(m, k) = Rebalanced(x)
      <4>1. m.key > k
        BY <1>0, <2>1, <2>6
      <4> HIDE DEF Good
      <4> QED BY <2>1, <2>6, <4>1, RemoveUnfold
    <3>2. t \in Avl /\ Entries(t) = {e \in Entries(m.left) : e[1] # k}
      BY <1>2, <2>1
    <3> HIDE DEF t
    <3>3. Below(t, m.key)
      BY <2>3, <3>2 DEF Below, Above
    <3>4. /\ x \in Unsettled
          /\ Entries(x) = Entries(t) \cup {<<m.key, m.value>>} \cup Entries(m.right)
      BY <2>1, <3>2, <3>3, PutLeft
    <3> HIDE DEF x
    <3>5. Entries(x) = {e \in Entries(m) : e[1] # k}
      <4>1. <<m.key, m.value>>[1] # k /\ \A e \in Entries(m.right) : e[1] # k
        BY <1>0, <2>1, <2>3, <2>4, <2>6
      <4> QED BY <2>2, <3>2, <3>4, <4>1
    <3> QED BY <3>1, <3>4, <3>5, RebalancedLemma
  <2>7. CASE TreeGet(m, k) # 0 /\ m.key < k
    <3> DEFINE t == RemoveRec(m.right, k)
               x == [m EXCEPT !.right = t]
    <3>1. RemoveRec(m, k) = Rebalanced(x)
      <4>1. m.key < k /\ ~ (m.key > k)
        BY <1>0, <2>1, <2>7
      <4> HIDE DEF Good
      <4> QED BY <2>1, <2>7, <4>1, RemoveUnfold
    <3>2. t \in Avl /\ Entries(t) = {e \in Entries(m.right) : e[1] # k}
      BY <1>2, <2>1
    <3> HIDE DEF t
    <3>3. Above(t, m.key)
      BY <2>3, <3>2 DEF Below, Above
    <3>4. /\ x \in Unsettled
          /\ Entries(x) = Entries(t) \cup {<<m.key, m.value>>} \cup Entries(m.left)
      BY <2>1, <3>2, <3>3, PutRight
    <3> HIDE DEF x
    <3>5. Entries(x) = {e \in Entries(m) : e[1] # k}
      <4>1. <<m.key, m.value>>[1] # k /\ \A e \in Entries(m.left) : e[1] # k
        BY <1>0, <2>1, <2>3, <2>4, <2>7
      <4> QED BY <2>2, <3>2, <3>4, <4>1
    <3> QED BY <3>1, <3>4, <3>5, RebalancedLemma
  <2>8. CASE TreeGet(m, k) # 0 /\ m.key = k
    <3>1. RemoveRec(m, k) = Rebalanced(RemoveRoot(m))
      <4>1. ~ (m.key > k) /\ ~ (m.key < k)
        BY <1>0, <2>1, <2>8
      <4> HIDE DEF Good
      <4> QED BY <2>1, <2>8, <4>1, RemoveUnfold
    <3>2. RemoveRoot(m) \in Avl /\ Entries(RemoveRoot(m)) = Entries(m.left) \cup Entries(m.right)
      BY <2>1, SubstituteLemma, RebalancedLemma DEF RemoveRoot
    <3>3. RemoveRoot(m) = Nil \/ RemoveRoot(m) \in Unsettled
      BY <3>2, AvlCases
    <3>4. Entries(RemoveRoot(m)) = {e \in Entries(m) : e[1] # k}
      <4>1. /\ \A e \in Entries(m.left) : e[1] # k
            /\ \A e \in Entries(m.right) : e[1] # k
        BY <1>0, <2>3, <2>8
      <4> QED BY <2>2, <2>4, <2>8, <3>2, <4>1
    <3> QED BY <3>1, <3>3, <3>4, RebalancedLemma
  <2> QED BY <1>0, <2>1, <2>5, <2>6, <2>7, <2>8
<1>3. Forest \subseteq P
  <2> HIDE DEF P
  <2> QED BY <1>1, <1>2, ForestInduction
<1> QED BY <1>3, AvlInForest

-----------------------------------------------------------------------------
(* The tree stands for the map. *)

AvlInv == /\ tree \in Avl
          /\ map \in [Keys -> Vals \cup {0}]
          /\ Entries(tree) = {<<k, map[k]>> : k \in Present}

\* No entry, no key: the empty tree stands for the empty map.
LEMMA AvlInit == Init => AvlInv
<1> SUFFICES ASSUME Init PROVE AvlInv
  OBVIOUS
<1>1. map \in [Keys -> Vals \cup {0}] /\ Present = {}
  BY DEF Init, Present
<1> QED BY <1>1, NilIsAvl, EntriesOfNil DEF Init, AvlInv

\* Every insertion and removal keeps the tree in step with the map.
LEMMA AvlNext == AvlInv /\ [Next]_vars => AvlInv'
<1> SUFFICES ASSUME AvlInv, [Next]_vars PROVE AvlInv'
  OBVIOUS
<1>0. /\ tree \in Avl /\ map \in [Keys -> Vals \cup {0}]
      /\ Entries(tree) = {<<k, map[k]>> : k \in Present}
      /\ Present = {k \in Keys : map[k] # 0}
      /\ Present' = {k \in Keys : map'[k] # 0}
  BY DEF AvlInv, Present
<1>1. ASSUME NEW k \in Keys, NEW v \in Vals, TreeInsert(k, v) PROVE AvlInv'
  <2>1. tree' \in Avl /\ Entries(tree') = {e \in Entries(tree) : e[1] # k} \cup {<<k, v>>}
    BY <1>0, <1>1, InsertLemma DEF TreeInsert
  <2>2. map' = [map EXCEPT ![k] = v] /\ v # 0
    BY <1>1, ValsAssumption DEF TreeInsert
  <2>3. map' \in [Keys -> Vals \cup {0}] /\ Present' = Present \cup {k}
    BY <1>0, <2>2
  <2>4. /\ \A j \in Keys \ {k} : map'[j] = map[j]
        /\ map'[k] = v
    BY <1>0, <2>2
  <2>5. {e \in Entries(tree) : e[1] # k} = {<<j, map[j]>> : j \in Present \ {k}}
    BY <1>0
  <2>6. {<<j, map[j]>> : j \in Present \ {k}} = {<<j, map'[j]>> : j \in Present \ {k}}
    BY <1>0, <2>4
  <2>7. Entries(tree') = {<<j, map'[j]>> : j \in Present'}
    BY <2>1, <2>3, <2>4, <2>5, <2>6
  <2>8. Entries(tree)' = Entries(tree')
    OBVIOUS
  <2> QED BY <2>1, <2>3, <2>7 DEF AvlInv
<1>2. ASSUME NEW k \in Removable, TreeRemove(k) PROVE AvlInv'
  <2>0. k \in Keys
    BY RemovableAssumption
  <2>1. tree' \in Avl /\ Entries(tree') = {e \in Entries(tree) : e[1] # k}
    BY <1>0, <1>2, <2>0, RemoveLemma DEF TreeRemove
  <2>2. map' = [map EXCEPT ![k] = 0]
    BY <1>2 DEF TreeRemove
  <2>3. map' \in [Keys -> Vals \cup {0}] /\ Present' = Present \ {k}
    BY <1>0, <2>0, <2>2
  <2>4. \A j \in Keys \ {k} : map'[j] = map[j]
    BY <1>0, <2>2
  <2>5. {e \in Entries(tree) : e[1] # k} = {<<j, map[j]>> : j \in Present \ {k}}
    BY <1>0
  <2>6. {<<j, map[j]>> : j \in Present \ {k}} = {<<j, map'[j]>> : j \in Present \ {k}}
    BY <1>0, <2>4
  <2>7. Entries(tree') = {<<j, map'[j]>> : j \in Present'}
    BY <2>1, <2>3, <2>5, <2>6
  <2> QED BY <2>1, <2>3, <2>7 DEF AvlInv
<1>3. ASSUME UNCHANGED vars PROVE AvlInv'
  BY <1>0, <1>3 DEF AvlInv, vars, Present
<1> QED BY <1>1, <1>2, <1>3 DEF Next

\* The inductive invariant of the tree.
LEMMA AvlInvariant == Spec => []AvlInv
  BY AvlInit, AvlNext, PTL DEF Spec

-----------------------------------------------------------------------------
(* The keys of a tree are listed in order. *)

Increasing(s) == \A i, j \in DOMAIN s : i < j => s[i] < s[j]

ElementsOf(s) == {s[i] : i \in DOMAIN s}

\* Two lists with a key between them.
LEMMA JoinLemma ==
  ASSUME NEW a \in Seq(Nat), NEW b \in Seq(Nat), NEW k \in Nat,
         Increasing(a), Increasing(b),
         \A x \in ElementsOf(a) : x < k, \A x \in ElementsOf(b) : k < x
  PROVE  /\ a \o <<k>> \o b \in Seq(Nat)
         /\ Increasing(a \o <<k>> \o b)
         /\ ElementsOf(a \o <<k>> \o b) = ElementsOf(a) \cup {k} \cup ElementsOf(b)
<1> DEFINE s == a \o <<k>> \o b
           p == Len(a)
<1>1. /\ p \in Nat /\ Len(b) \in Nat
      /\ DOMAIN a = 1 .. p /\ DOMAIN b = 1 .. Len(b)
  OBVIOUS
<1>2. /\ s \in Seq(Nat) /\ DOMAIN s = 1 .. p + 1 + Len(b)
      /\ \A i \in 1 .. p : s[i] = a[i]
      /\ s[p + 1] = k
      /\ \A i \in 1 .. Len(b) : s[p + 1 + i] = b[i]
  <2> DEFINE c == a \o <<k>>
  <2>1. /\ c \in Seq(Nat) /\ Len(c) = p + 1
        /\ \A i \in 1 .. p : c[i] = a[i]
        /\ c[p + 1] = k
    OBVIOUS
  <2> HIDE DEF c
  <2>2. /\ c \o b \in Seq(Nat) /\ Len(c \o b) = p + 1 + Len(b)
        /\ \A i \in 1 .. p + 1 : (c \o b)[i] = c[i]
        /\ \A i \in 1 .. Len(b) : (c \o b)[p + 1 + i] = b[i]
    <3>1. b \in Seq(Nat) /\ Len(b) \in Nat
      OBVIOUS
    <3>2. c \o b \in Seq(Nat) /\ Len(c \o b) = Len(c) + Len(b)
      BY <2>1, <3>1, ConcatProperties
    <3>3. \A i \in 1 .. Len(c) + Len(b) :
            (c \o b)[i] = IF i <= Len(c) THEN c[i] ELSE b[i - Len(c)]
      BY <2>1, <3>1
    <3> HIDE DEF p
    <3>4. ASSUME NEW i \in 1 .. p + 1 PROVE (c \o b)[i] = c[i]
      <4>1. i \in 1 .. Len(c) + Len(b) /\ i <= Len(c)
        BY <1>1, <2>1
      <4> QED BY <3>3, <4>1
    <3>5. ASSUME NEW i \in 1 .. Len(b) PROVE (c \o b)[p + 1 + i] = b[i]
      <4>1. /\ p + 1 + i \in 1 .. Len(c) + Len(b) /\ ~ (p + 1 + i <= Len(c))
            /\ (p + 1 + i) - Len(c) = i
        BY <1>1, <2>1
      <4> QED BY <3>3, <4>1
    <3> QED BY <2>1, <3>2, <3>4, <3>5
  <2>3. s = c \o b
    BY DEF c
  <2> HIDE DEF s, p
  <2>4. DOMAIN s = 1 .. p + 1 + Len(b)
    BY <2>2, <2>3
  <2>5. \A i \in 1 .. p : i \in 1 .. p + 1
    BY <1>1
  <2>6. p + 1 \in 1 .. p + 1
    BY <1>1
  <2> QED BY <2>1, <2>2, <2>3, <2>4, <2>5, <2>6
<1> HIDE DEF s, p
<1>3. \A i \in DOMAIN s : \/ i \in 1 .. p
                          \/ i = p + 1
                          \/ i - p - 1 \in 1 .. Len(b) /\ i = p + 1 + (i - p - 1)
  <2> SUFFICES ASSUME NEW i \in 1 .. p + 1 + Len(b), i \notin 1 .. p, i # p + 1
               PROVE  i - p - 1 \in 1 .. Len(b) /\ i = p + 1 + (i - p - 1)
    BY <1>2
  <2> QED BY <1>1
<1>4. ASSUME NEW i \in 1 .. p PROVE a[i] \in Nat /\ a[i] < k
  <2>1. i \in DOMAIN a
    BY <1>1
  <2>2. a[i] \in ElementsOf(a)
    BY <2>1 DEF ElementsOf
  <2> QED BY <2>1, <2>2
<1>5. ASSUME NEW i \in 1 .. Len(b) PROVE b[i] \in Nat /\ k < b[i]
  <2>1. i \in DOMAIN b
    BY <1>1
  <2>2. b[i] \in ElementsOf(b)
    BY <2>1 DEF ElementsOf
  <2> QED BY <2>1, <2>2
<1>6. Increasing(s)
  <2> SUFFICES ASSUME NEW i \in DOMAIN s, NEW j \in DOMAIN s, i < j PROVE s[i] < s[j]
    BY DEF Increasing
  <2>1. i \in Nat /\ j \in Nat
    BY <1>1, <1>2
  <2>2. CASE i \in 1 .. p /\ j \in 1 .. p
    BY <1>1, <1>2, <2>2 DEF Increasing
  <2>3. CASE i \in 1 .. p /\ j \notin 1 .. p
    <3>1. s[i] < k /\ s[i] \in Nat
      BY <1>2, <1>4, <2>3
    <3>2. s[j] = k \/ (s[j] \in Nat /\ k < s[j])
      BY <1>2, <1>3, <1>5, <2>3
    <3> QED BY <3>1, <3>2
  <2>4. CASE i = p + 1
    <3>1. j \notin 1 .. p /\ j # p + 1
      BY <1>1, <2>1, <2>4
    <3>2. s[i] = k /\ k < s[j]
      BY <1>2, <1>3, <1>5, <2>4, <3>1
    <3> QED BY <3>2
  <2>5. CASE i - p - 1 \in 1 .. Len(b)
    <3>1. j \notin 1 .. p /\ j # p + 1
      BY <1>1, <2>1, <2>5
    <3>2. j - p - 1 \in 1 .. Len(b) /\ i - p - 1 < j - p - 1
      BY <1>1, <1>3, <2>1, <3>1
    <3>3. s[i] = b[i - p - 1] /\ s[j] = b[j - p - 1]
      <4>1. i = p + 1 + (i - p - 1) /\ j = p + 1 + (j - p - 1)
        BY <1>1, <2>1
      <4> QED BY <1>2, <2>5, <3>2, <4>1
    <3> QED BY <1>1, <2>5, <3>2, <3>3 DEF Increasing
  <2> QED BY <1>3, <2>2, <2>3, <2>4, <2>5
<1>7. ElementsOf(s) = ElementsOf(a) \cup {k} \cup ElementsOf(b)
  <2>1. ElementsOf(s) \subseteq ElementsOf(a) \cup {k} \cup ElementsOf(b)
    <3> SUFFICES ASSUME NEW i \in DOMAIN s
                 PROVE  s[i] \in ElementsOf(a) \cup {k} \cup ElementsOf(b)
      BY DEF ElementsOf
    <3>1. CASE i \in 1 .. p
      BY <1>1, <1>2, <3>1 DEF ElementsOf
    <3>2. CASE i = p + 1
      BY <1>2, <3>2
    <3>3. CASE i - p - 1 \in 1 .. Len(b) /\ i = p + 1 + (i - p - 1)
      <4>1. s[i] = b[i - p - 1]
        BY <1>2, <3>3
      <4> QED BY <1>1, <3>3, <4>1 DEF ElementsOf
    <3> QED BY <1>3, <3>1, <3>2, <3>3
  <2>2. \A i \in 1 .. p : i \in DOMAIN s
    BY <1>1, <1>2
  <2>3. p + 1 \in DOMAIN s
    BY <1>1, <1>2
  <2>4. \A i \in 1 .. Len(b) : p + 1 + i \in DOMAIN s
    BY <1>1, <1>2
  <2>5. ElementsOf(a) \subseteq ElementsOf(s)
    <3> SUFFICES ASSUME NEW i \in 1 .. p PROVE a[i] \in ElementsOf(s)
      BY <1>1 DEF ElementsOf
    <3>1. a[i] = s[i]
      BY <1>2
    <3> QED BY <2>2, <3>1 DEF ElementsOf
  <2>6. ElementsOf(b) \subseteq ElementsOf(s)
    <3> SUFFICES ASSUME NEW i \in 1 .. Len(b) PROVE b[i] \in ElementsOf(s)
      BY <1>1 DEF ElementsOf
    <3>1. b[i] = s[p + 1 + i]
      BY <1>2
    <3> QED BY <2>4, <3>1 DEF ElementsOf
  <2>7. k \in ElementsOf(s)
    BY <1>2, <2>3 DEF ElementsOf
  <2> QED BY <2>1, <2>5, <2>6, <2>7
<1> QED BY <1>2, <1>6, <1>7 DEF s

\* get_keys lists what the tree has, lowest first.
LEMMA GetKeysLemma ==
  ASSUME NEW n \in Avl
  PROVE  /\ GetKeysRec(n) \in Seq(Nat)
         /\ Increasing(GetKeysRec(n))
         /\ ElementsOf(GetKeysRec(n)) = {e[1] : e \in Entries(n)}
<1> DEFINE Good(m, s) == /\ s \in Seq(Nat) /\ Increasing(s)
                         /\ ElementsOf(s) = {e[1] : e \in Entries(m)}
           P == {m \in Forest : m \in Avl => Good(m, GetKeysRec(m))}
<1>1. Nil \in P
  <2>1. GetKeysRec(Nil) = <<>>
    BY KeysUnfold, TreesUnfold, NilFields
  <2>2. Good(Nil, <<>>)
    BY EntriesOfNil DEF Increasing, ElementsOf
  <2> QED BY <2>1, <2>2, NilFields
<1>2. ASSUME NEW m \in Branch, m.left \in P, m.right \in P PROVE m \in P
  <2> SUFFICES ASSUME m \in Avl PROVE Good(m, GetKeysRec(m))
    BY BranchFields
  <2>1. /\ ~ IsNil(m) /\ m \in Trees /\ m.left \in Avl /\ m.right \in Avl /\ m.key \in Nat
        /\ Entries(m) = Entries(m.left) \cup {<<m.key, m.value>>} \cup Entries(m.right)
        /\ \A e \in Entries(m.left) : e[1] \in Nat /\ e[1] < m.key
        /\ \A e \in Entries(m.right) : e[1] \in Nat /\ e[1] > m.key
    BY BranchFields, AvlCases
  <2> DEFINE a == GetKeysRec(m.left)
             b == GetKeysRec(m.right)
  <2>2. Good(m.left, a) /\ Good(m.right, b)
    BY <1>2, <2>1
  <2>3. GetKeysRec(m) = a \o <<m.key>> \o b
    BY <2>1, KeysUnfold
  <2> HIDE DEF a, b
  <2>4. (\A x \in ElementsOf(a) : x < m.key) /\ (\A x \in ElementsOf(b) : m.key < x)
    BY <2>1, <2>2
  <2> DEFINE s == a \o <<m.key>> \o b
  <2>5. /\ s \in Seq(Nat) /\ Increasing(s)
        /\ ElementsOf(s) = ElementsOf(a) \cup {m.key} \cup ElementsOf(b)
    BY <2>1, <2>2, <2>4, JoinLemma
  <2> HIDE DEF s
  <2>6. {e[1] : e \in Entries(m)}
          = {e[1] : e \in Entries(m.left)} \cup {m.key} \cup {e[1] : e \in Entries(m.right)}
    <3>1. <<m.key, m.value>>[1] = m.key
      OBVIOUS
    <3> QED BY <2>1, <3>1
  <2> QED BY <2>2, <2>3, <2>5, <2>6 DEF s
<1>3. Forest \subseteq P
  <2> HIDE DEF P
  <2> QED BY <1>1, <1>2, ForestInduction
<1> QED BY <1>3, AvlInForest

\* After any insertions and removals the tree is the map: get finds the value
\* of every key, and get_keys lists the keys once, in order, through every
\* rotation of balance_node and every way remove_root fills the gap.
THEOREM TreeIsMap == Spec => []IsMap
<1>1. AvlInv => IsMap
  <2> SUFFICES ASSUME AvlInv PROVE IsMap
    OBVIOUS
  <2>1. /\ tree \in Avl /\ map \in [Keys -> Vals \cup {0}]
        /\ Entries(tree) = {<<k, map[k]>> : k \in Present}
    BY DEF AvlInv
  <2>2. ASSUME NEW k \in Keys PROVE TreeGet(tree, k) = map[k]
    <3>0. k \in Nat
      BY KeysAssumption
    <3>1. CASE map[k] # 0
      <4>1. <<k, map[k]>> \in Entries(tree)
        BY <2>1, <3>1 DEF Present
      <4> QED BY <2>1, <3>0, <4>1, GetLemma
    <3>2. CASE map[k] = 0
      <4>1. \A v : <<k, v>> \notin Entries(tree)
        BY <2>1, <3>2 DEF Present
      <4> QED BY <2>1, <3>0, <3>2, <4>1, GetLemma
    <3> QED BY <3>1, <3>2
  <2> DEFINE keys == GetKeysRec(tree)
  <2>3. Increasing(keys) /\ ElementsOf(keys) = {e[1] : e \in Entries(tree)}
    BY <2>1, GetKeysLemma
  <2>4. {e[1] : e \in Entries(tree)} = Present
    <3>1. \A k : <<k, map[k]>>[1] = k
      OBVIOUS
    <3>2. {e[1] : e \in Entries(tree)} = {<<k, map[k]>>[1] : k \in Present}
      BY <2>1
    <3> QED BY <3>1, <3>2
  <2>5. /\ {keys[i] : i \in DOMAIN keys} = Present
        /\ \A i, j \in DOMAIN keys : i < j => keys[i] < keys[j]
    BY <2>3, <2>4 DEF Increasing, ElementsOf
  <2> QED BY <2>2, <2>5 DEF IsMap
<1> QED BY <1>1, AvlInvariant, PTL

\* Every node a tree consists of is in order and settled.
LEMMA NodesLemma ==
  ASSUME NEW n \in Avl
  PROVE  Nodes(n) \subseteq Avl \cap Branch
<1> DEFINE P == {m \in Forest : m \in Avl => Nodes(m) \subseteq Avl \cap Branch}
<1>1. Nil \in P
  <2>1. Nodes(Nil) = {}
    BY NodesUnfold, TreesUnfold, NilFields
  <2> QED BY <2>1, NilFields
<1>2. ASSUME NEW m \in Branch, m.left \in P, m.right \in P PROVE m \in P
  <2> SUFFICES ASSUME m \in Avl PROVE Nodes(m) \subseteq Avl \cap Branch
    BY BranchFields
  <2>1. ~ IsNil(m) /\ m \in Trees /\ m.left \in Avl /\ m.right \in Avl
    BY BranchFields, AvlCases
  <2>2. Nodes(m) = {m} \cup Nodes(m.left) \cup Nodes(m.right)
    BY <2>1, NodesUnfold
  <2> QED BY <1>2, <2>1, <2>2
<1>3. Forest \subseteq P
  <2> HIDE DEF P
  <2> QED BY <1>1, <1>2, ForestInduction
<1> QED BY <1>3, AvlInForest

\* No path through insertion, removal or rotation forgets an update: every
\* node's cached height and hashes are those of its children and its value.
THEOREM CachesAreFresh == Spec => []CachesFresh
<1>1. AvlInv => CachesFresh
  <2> SUFFICES ASSUME AvlInv, NEW n \in Nodes(tree)
               PROVE  /\ n.height = UpdateHeight(n)
                      /\ n.hash = LocalHash(n.key, n.value)
                      /\ n.merkle = UpdateHashes(n)
    BY DEF CachesFresh
  <2>1. n \in Avl /\ n \in Branch
    BY NodesLemma DEF AvlInv
  <2> QED BY <2>1, AvlUnfold DEF Unsettled, InOrder, Settled
<1> QED BY <1>1, AvlInvariant, PTL

-----------------------------------------------------------------------------
(* Proofs of existence and of non-existence. *)

Hashes == Digest \cup (Keys \X Vals)

Ops == [prefix : Seq(Hashes), suffix : Seq(Hashes)]

Proofs == [key : Keys, value : Vals, path : Seq(Ops)]

\* What an inner op makes of the hash of a child.
Around(op, h) == op.prefix \o <<h>> \o op.suffix

\* The hash after i inner ops, given those before, and all up to n.
RootStep(w, p, i) ==
  IF i = 0 THEN LocalHash(p.key, p.value)
  ELSE p.path[i].prefix \o <<w[i - 1]>> \o p.path[i].suffix

RootWalk(w, p, n) == w = [i \in 0 .. n |-> RootStep(w, p, i)]

\* One hash of a walk.
LEMMA RootWalkAt ==
  ASSUME NEW p, NEW n \in Nat, NEW w, RootWalk(w, p, n), NEW i \in Nat, i <= n
  PROVE  w[i] = RootStep(w, p, i)
<1>1. i \in 0 .. n
  OBVIOUS
<1> QED BY <1>1 DEF RootWalk

\* There is a walk along any number of ops.
LEMMA RootWalkExists ==
  ASSUME NEW p, NEW n \in Nat
  PROVE  \E w : RootWalk(w, p, n)
<1> DEFINE P == {m \in Nat : \E w : RootWalk(w, p, m)}
<1>1. 0 \in P
  <2> DEFINE w == [i \in 0 .. 0 |-> LocalHash(p.key, p.value)]
  <2>1. RootWalk(w, p, 0)
    BY DEF RootWalk, RootStep
  <2> QED BY <2>1
<1>2. ASSUME NEW m \in Nat, m \in P PROVE m + 1 \in P
  <2>1. PICK w : RootWalk(w, p, m)
    BY <1>2
  <2> DEFINE v == [i \in 0 .. m + 1 |-> RootStep(w, p, i)]
  <2>2. \A i \in 0 .. m : i \in 0 .. m + 1 /\ v[i] = w[i]
    BY <2>1 DEF RootWalk
  <2>3. \A i \in 0 .. m + 1 : RootStep(w, p, i) = RootStep(v, p, i)
    <3>1. \A i \in 0 .. m + 1 : i # 0 => i - 1 \in 0 .. m
      OBVIOUS
    <3> HIDE DEF v
    <3> QED BY <2>2, <3>1 DEF RootStep
  <2>4. RootWalk(v, p, m + 1)
    BY <2>3 DEF RootWalk
  <2> HIDE DEF v
  <2> QED BY <2>4
<1>3. Nat \subseteq P
  <2> HIDE DEF P
  <2> QED BY <1>1, <1>2, NatSetInduction
<1> QED BY <1>3

\* Walks along the same ops compute the same hashes.
LEMMA RootWalksAgree ==
  ASSUME NEW p, NEW q, p.key = q.key, p.value = q.value,
         NEW l \in Nat, NEW m \in Nat, NEW n \in Nat, n <= l, n <= m,
         NEW w, NEW v, RootWalk(w, p, l), RootWalk(v, q, m),
         \A i \in 1 .. n : p.path[i] = q.path[i]
  PROVE  w[n] = v[n]
<1> DEFINE P == {i \in Nat : i <= n => w[i] = v[i]}
<1>1. 0 \in P
  <2>1. w[0] = RootStep(w, p, 0) /\ v[0] = RootStep(v, q, 0)
    BY RootWalkAt
  <2> QED BY <2>1 DEF RootStep
<1>2. ASSUME NEW i \in Nat, i \in P PROVE i + 1 \in P
  <2> SUFFICES ASSUME i + 1 <= n PROVE w[i + 1] = v[i + 1]
    OBVIOUS
  <2>1. w[i] = v[i]
    BY <1>2
  <2>2. w[i + 1] = RootStep(w, p, i + 1) /\ v[i + 1] = RootStep(v, q, i + 1)
    <3>1. i + 1 \in Nat /\ i + 1 <= l /\ i + 1 <= m
      OBVIOUS
    <3> QED BY <3>1, RootWalkAt
  <2>3. i + 1 # 0 /\ (i + 1) - 1 = i /\ i + 1 \in 1 .. n
    OBVIOUS
  <2>4. RootStep(w, p, i + 1) = RootStep(v, q, i + 1)
    BY <2>1, <2>3 DEF RootStep
  <2> QED BY <2>2, <2>4
<1>3. Nat \subseteq P
  <2> HIDE DEF P
  <2> QED BY <1>1, <1>2, NatSetInduction
<1> QED BY <1>3

\* The verifier ends where the walk ends.
LEMMA RootOfWalk ==
  ASSUME NEW p, NEW n \in Nat, n = Len(p.path), NEW w, RootWalk(w, p, n)
  PROVE  CalculateRoot(p) = w[n]
<1> DEFINE v == CHOOSE u : RootWalk(u, p, n)
<1>1. RootWalk(v, p, n)
  BY RootWalkExists
<1>2. CalculateRoot(p) = v[n]
  BY DEF CalculateRoot, RootWalk, RootStep
<1> HIDE DEF v
<1>3. v[n] = w[n]
  <2>1. n <= n /\ \A i \in 1 .. n : p.path[i] = p.path[i]
    OBVIOUS
  <2> QED BY <1>1, <2>1, RootWalksAgree
<1> QED BY <1>2, <1>3

\* The first op surrounds the hash of the entry.
LEMMA RootOfOne ==
  ASSUME NEW p, NEW op \in Ops, p.path = <<op>>
  PROVE  CalculateRoot(p) = Around(op, LocalHash(p.key, p.value))
<1>1. Len(p.path) = 1 /\ p.path[1] = op
  OBVIOUS
<1>2. PICK w : RootWalk(w, p, 1)
  BY RootWalkExists
<1>3. CalculateRoot(p) = w[1]
  BY <1>1, <1>2, RootOfWalk
<1>4. w[1] = RootStep(w, p, 1) /\ w[0] = RootStep(w, p, 0)
  BY <1>2, RootWalkAt
<1>5. w[0] = LocalHash(p.key, p.value)
  BY <1>4 DEF RootStep
<1>6. w[1] = op.prefix \o <<w[0]>> \o op.suffix
  <2>1. 1 # 0 /\ 1 - 1 = 0
    OBVIOUS
  <2> QED BY <1>1, <1>4, <2>1 DEF RootStep
<1> QED BY <1>3, <1>5, <1>6 DEF Around

\* An op more surrounds the hash computed without it.
LEMMA RootOfMore ==
  ASSUME NEW p \in Proofs, NEW op \in Ops
  PROVE  /\ PushOp(p, op) \in Proofs
         /\ PushOp(p, op).key = p.key /\ PushOp(p, op).value = p.value
         /\ CalculateRoot(PushOp(p, op)) = Around(op, CalculateRoot(p))
<1> DEFINE q == PushOp(p, op)
           n == Len(p.path)
<1>1. p # NoProof
  BY KeysAssumption DEF Proofs, NoProof
<1>2. /\ q \in Proofs /\ q.key = p.key /\ q.value = p.value
      /\ q.path = Append(p.path, op)
  BY <1>1 DEF PushOp, Proofs
<1>3. /\ n \in Nat /\ Len(q.path) = n + 1 /\ q.path[n + 1] = op
      /\ \A i \in 1 .. n : q.path[i] = p.path[i]
  BY <1>2 DEF Proofs
<1> HIDE DEF q, n
<1>4. PICK w : RootWalk(w, p, n)
  BY <1>3, RootWalkExists
<1>5. n + 1 \in Nat /\ n <= n /\ n <= n + 1 /\ n + 1 # 0 /\ (n + 1) - 1 = n
  BY <1>3
<1>6. PICK v : RootWalk(v, q, n + 1)
  BY <1>5, RootWalkExists
<1>7. CalculateRoot(p) = w[n]
  BY <1>3, <1>4, RootOfWalk DEF n
<1>8. CalculateRoot(q) = v[n + 1]
  BY <1>3, <1>5, <1>6, RootOfWalk
<1>9. v[n] = w[n]
  <2>1. q.key = p.key /\ q.value = p.value /\ \A i \in 1 .. n : q.path[i] = p.path[i]
    BY <1>2, <1>3
  <2>2. n \in Nat /\ n + 1 \in Nat /\ n <= n /\ n <= n + 1
    BY <1>3, <1>5
  <2> QED BY ONLY <1>4, <1>6, <2>1, <2>2, RootWalksAgree
<1>10. v[n + 1] = RootStep(v, q, n + 1)
  BY <1>5, <1>6, RootWalkAt
<1>11. RootStep(v, q, n + 1) = Around(op, v[n])
  BY <1>3, <1>5 DEF RootStep, Around
<1> QED BY <1>2, <1>7, <1>8, <1>9, <1>10, <1>11 DEF q

\* A list is the join of its two parts.
LEMMA Joined ==
  ASSUME NEW S, NEW s \in Seq(S), NEW t \in Seq(S), NEW u \in Seq(S),
         Len(u) = Len(s) + Len(t),
         \A i \in 1 .. Len(s) : u[i] = s[i],
         \A i \in 1 .. Len(t) : u[Len(s) + i] = t[i]
  PROVE  s \o t = u
<1>1. /\ s \o t \in Seq(S) /\ Len(s \o t) = Len(u)
      /\ \A i \in 1 .. Len(s) + Len(t) :
           (s \o t)[i] = IF i <= Len(s) THEN s[i] ELSE t[i - Len(s)]
  BY ConcatProperties
<1>2. Len(s) \in Nat /\ Len(t) \in Nat
  OBVIOUS
<1>3. ASSUME NEW i \in 1 .. Len(u) PROVE (s \o t)[i] = u[i]
  <2>1. CASE i <= Len(s)
    BY <1>1, <1>2, <2>1
  <2>2. CASE ~ (i <= Len(s))
    <3>1. i - Len(s) \in 1 .. Len(t) /\ Len(s) + (i - Len(s)) = i
      BY <1>2, <2>2
    <3>2. u[i] = t[i - Len(s)]
      BY <3>1
    <3> QED BY <1>1, <2>2, <3>2
  <2> QED BY <2>1, <2>2
<1> QED BY <1>1, <1>3, SeqEqual

\* The same for short lists of anything.
LEMMA JoinedTwo ==
  ASSUME NEW a, NEW b PROVE <<a>> \o <<b>> = <<a, b>>
<1> DEFINE S == {a, b}
           s == <<a>>
           t == <<b>>
           u == <<a, b>>
<1>1. s \in Seq(S) /\ t \in Seq(S) /\ u \in Seq(S)
  OBVIOUS
<1>2. Len(s) = 1 /\ Len(t) = 1 /\ Len(u) = 2
  OBVIOUS
<1>3. (\A i \in 1 .. 1 : u[i] = s[i]) /\ (\A i \in 1 .. 1 : u[1 + i] = t[i])
  OBVIOUS
<1> HIDE DEF S, s, t, u
<1>4. /\ Len(u) = Len(s) + Len(t)
      /\ \A i \in 1 .. Len(s) : u[i] = s[i]
      /\ \A i \in 1 .. Len(t) : u[Len(s) + i] = t[i]
  BY <1>2, <1>3
<1>5. s \o t = u
  BY ONLY <1>1, <1>4, Joined
<1> QED BY <1>5 DEF s, t, u

\* Two elements and one more.
LEMMA JoinedLast ==
  ASSUME NEW a, NEW b, NEW c PROVE <<a, b>> \o <<c>> = <<a, b, c>>
<1> DEFINE S == {a, b, c}
           s == <<a, b>>
           t == <<c>>
           u == <<a, b, c>>
<1>1. s \in Seq(S) /\ t \in Seq(S) /\ u \in Seq(S)
  OBVIOUS
<1>2. Len(s) = 2 /\ Len(t) = 1 /\ Len(u) = 3
  OBVIOUS
<1>3. (\A i \in 1 .. 2 : u[i] = s[i]) /\ (\A i \in 1 .. 1 : u[2 + i] = t[i])
  OBVIOUS
<1> HIDE DEF S, s, t, u
<1>4. /\ Len(u) = Len(s) + Len(t)
      /\ \A i \in 1 .. Len(s) : u[i] = s[i]
      /\ \A i \in 1 .. Len(t) : u[Len(s) + i] = t[i]
  BY <1>2, <1>3
<1>5. s \o t = u
  BY ONLY <1>1, <1>4, Joined
<1> QED BY <1>5 DEF s, t, u

\* One element and two more.
LEMMA JoinedFirst ==
  ASSUME NEW a, NEW b, NEW c PROVE <<a>> \o <<b, c>> = <<a, b, c>>
<1> DEFINE S == {a, b, c}
           s == <<a>>
           t == <<b, c>>
           u == <<a, b, c>>
<1>1. s \in Seq(S) /\ t \in Seq(S) /\ u \in Seq(S)
  OBVIOUS
<1>2. Len(s) = 1 /\ Len(t) = 2 /\ Len(u) = 3
  OBVIOUS
<1>3. (\A i \in 1 .. 1 : u[i] = s[i]) /\ (\A i \in 1 .. 2 : u[1 + i] = t[i])
  OBVIOUS
<1> HIDE DEF S, s, t, u
<1>4. /\ Len(u) = Len(s) + Len(t)
      /\ \A i \in 1 .. Len(s) : u[i] = s[i]
      /\ \A i \in 1 .. Len(t) : u[Len(s) + i] = t[i]
  BY <1>2, <1>3
<1>5. s \o t = u
  BY ONLY <1>1, <1>4, Joined
<1> QED BY <1>5 DEF s, t, u

\* The hashes of a node in its place among the others.
LEMMA AroundBoth ==
  ASSUME NEW a, NEW b, NEW h
  PROVE  Around(InnerOp(<<a>>, <<b>>), h) = <<a, h, b>>
<1>1. Around(InnerOp(<<a>>, <<b>>), h) = <<a>> \o <<h>> \o <<b>>
  BY DEF Around, InnerOp
<1>2. <<a>> \o <<h>> = <<a, h>> /\ <<a, h>> \o <<b>> = <<a, h, b>>
  BY JoinedTwo, JoinedLast
<1> QED BY <1>1, <1>2

\* The hash of the left child in its place.
LEMMA AroundLeft ==
  ASSUME NEW a, NEW b, NEW h
  PROVE  Around(InnerOp(<<>>, <<a, b>>), h) = <<h, a, b>>
<1>1. Around(InnerOp(<<>>, <<a, b>>), h) = <<>> \o <<h>> \o <<a, b>>
  BY DEF Around, InnerOp
<1>2. <<>> \o <<h>> = <<h>>
  OBVIOUS
<1>3. <<h>> \o <<a, b>> = <<h, a, b>>
  BY JoinedFirst
<1> QED BY <1>1, <1>2, <1>3

\* The hash of the right child in its place.
LEMMA AroundRight ==
  ASSUME NEW a, NEW b, NEW h
  PROVE  Around(InnerOp(<<a, b>>, <<>>), h) = <<a, b, h>>
<1>1. Around(InnerOp(<<a, b>>, <<>>), h) = <<a, b>> \o <<h>> \o <<>>
  BY DEF Around, InnerOp
<1>2. <<a, b>> \o <<h>> = <<a, b, h>>
  BY JoinedLast
<1>3. <<a, b, h>> \o <<>> = <<a, b, h>>
  OBVIOUS
<1> QED BY <1>1, <1>2, <1>3

\* q proves an entry of n.
Proves(q, n) == /\ q \in Proofs
                /\ <<q.key, q.value>> \in Entries(n)
                /\ CalculateRoot(q) = ChildHash(n)

\* The proof of a root's own entry verifies.
LEMMA LocalProofLemma ==
  ASSUME NEW n \in Avl, ~ IsNil(n)
  PROVE  Proves(GetLocalExistenceProof(n), n) /\ GetLocalExistenceProof(n).key = n.key
<1> DEFINE q == GetLocalExistenceProof(n)
           op == InnerOp(<<ChildHash(n.left)>>, <<ChildHash(n.right)>>)
<1>1. n \in Branch /\ n \in Unsettled /\ Settled(n) /\ n.left \in Forest /\ n.right \in Forest
  BY AvlCases
<1>2. ChildHash(n.left) \in Digest /\ ChildHash(n.right) \in Digest
  BY <1>1, ChildLemma
<1>3. op \in Ops
  BY <1>2 DEF Ops, InnerOp, Hashes
<1>4. /\ q \in Proofs /\ q.key = n.key /\ q.value = n.value /\ q.path = <<op>>
  BY <1>1, <1>3, BranchFields DEF GetLocalExistenceProof, Proofs
<1>5. CalculateRoot(q) = Around(op, LocalHash(n.key, n.value))
  <2> HIDE DEF q, op
  <2> QED BY <1>3, <1>4, RootOfOne
<1>6. Around(op, LocalHash(n.key, n.value)) = UpdateHashes(n)
  <2>1. Around(op, n.hash) = <<ChildHash(n.left), n.hash, ChildHash(n.right)>>
    BY AroundBoth
  <2>2. n.hash = LocalHash(n.key, n.value)
    BY <1>1 DEF Unsettled, InOrder
  <2> QED BY <2>1, <2>2 DEF UpdateHashes
<1>7. ChildHash(n) = UpdateHashes(n)
  BY <1>1 DEF ChildHash, Settled
<1>8. <<n.key, n.value>> \in Entries(n)
  BY AvlCases
<1> HIDE DEF q, op
<1>9. Proves(q, n) /\ q.key = n.key
  BY <1>4, <1>5, <1>6, <1>7, <1>8 DEF Proves
<1> QED BY <1>9 DEF q

\* A proof about a child becomes one about the node.
LEMMA LiftLeft ==
  ASSUME NEW n \in Avl, ~ IsNil(n), NEW q, Proves(q, n.left),
         NEW op, op = InnerOp(<<>>, <<n.hash, ChildHash(n.right)>>)
  PROVE  Proves(PushOp(q, op), n) /\ PushOp(q, op).key = q.key
<1>1. n \in Branch /\ n \in Unsettled /\ Settled(n) /\ n.left \in Forest /\ n.right \in Forest
  BY AvlCases
<1>2. ChildHash(n.right) \in Hashes /\ n.hash \in Hashes
  BY <1>1, ChildLemma, BranchFields DEF Hashes
<1>3. op \in Ops
  BY <1>2 DEF Ops, InnerOp
<1>4. /\ PushOp(q, op) \in Proofs
      /\ PushOp(q, op).key = q.key /\ PushOp(q, op).value = q.value
      /\ CalculateRoot(PushOp(q, op)) = Around(op, CalculateRoot(q))
  BY <1>3, RootOfMore DEF Proves
<1>5. Around(op, ChildHash(n.left)) = UpdateHashes(n)
  <2>1. Around(InnerOp(<<>>, <<n.hash, ChildHash(n.right)>>), ChildHash(n.left))
          = <<ChildHash(n.left), n.hash, ChildHash(n.right)>>
    BY AroundLeft
  <2> QED BY <2>1 DEF UpdateHashes
<1>6. ChildHash(n) = UpdateHashes(n)
  BY <1>1 DEF ChildHash, Settled
<1>7. <<q.key, q.value>> \in Entries(n)
  BY AvlCases DEF Proves
<1> QED BY <1>4, <1>5, <1>6, <1>7 DEF Proves

\* The same from the right child.
LEMMA LiftRight ==
  ASSUME NEW n \in Avl, ~ IsNil(n), NEW q, Proves(q, n.right),
         NEW op, op = InnerOp(<<ChildHash(n.left), n.hash>>, <<>>)
  PROVE  Proves(PushOp(q, op), n) /\ PushOp(q, op).key = q.key
<1>1. n \in Branch /\ n \in Unsettled /\ Settled(n) /\ n.left \in Forest /\ n.right \in Forest
  BY AvlCases
<1>2. ChildHash(n.left) \in Hashes /\ n.hash \in Hashes
  BY <1>1, ChildLemma, BranchFields DEF Hashes
<1>3. op \in Ops
  BY <1>2 DEF Ops, InnerOp
<1>4. /\ PushOp(q, op) \in Proofs
      /\ PushOp(q, op).key = q.key /\ PushOp(q, op).value = q.value
      /\ CalculateRoot(PushOp(q, op)) = Around(op, CalculateRoot(q))
  BY <1>3, RootOfMore DEF Proves
<1>5. Around(op, ChildHash(n.right)) = UpdateHashes(n)
  <2>1. Around(InnerOp(<<ChildHash(n.left), n.hash>>, <<>>), ChildHash(n.right))
          = <<ChildHash(n.left), n.hash, ChildHash(n.right)>>
    BY AroundRight
  <2> QED BY <2>1 DEF UpdateHashes
<1>6. ChildHash(n) = UpdateHashes(n)
  BY <1>1 DEF ChildHash, Settled
<1>7. <<q.key, q.value>> \in Entries(n)
  BY AvlCases DEF Proves
<1> QED BY <1>4, <1>5, <1>6, <1>7 DEF Proves

\* The proof of the closest entry on either side of k, if there is one.
ClosestBelow(q, n, k) ==
  \/ q = NoProof /\ \A e \in Entries(n) : ~ (e[1] < k)
  \/ Proves(q, n) /\ q.key < k /\ \A e \in Entries(n) : e[1] < k => e[1] <= q.key

ClosestAbove(q, n, k) ==
  \/ q = NoProof /\ \A e \in Entries(n) : ~ (e[1] > k)
  \/ Proves(q, n) /\ q.key > k /\ \A e \in Entries(n) : e[1] > k => e[1] >= q.key

Answers(p, n, k) ==
  \/ /\ p.exist = TRUE
     /\ Proves(p.proof, n) /\ p.proof.key = k
  \/ /\ p.exist = FALSE
     /\ \A e \in Entries(n) : e[1] # k
     /\ ClosestBelow(p.left, n, k) /\ ClosestAbove(p.right, n, k)

\* What is proved of a key is on this side of the tree, or is the key.
LEMMA ProvesKey ==
  ASSUME NEW q, NEW n, Proves(q, n)
  PROVE  /\ q # NoProof
         /\ \E e \in Entries(n) : e[1] = q.key
         /\ q.key \in Nat
<1>1. q.key \in Keys
  BY DEF Proves, Proofs
<1>2. <<q.key, q.value>> \in Entries(n) /\ <<q.key, q.value>>[1] = q.key
  BY DEF Proves
<1>3. q.key \in Nat /\ q.key # 0
  BY <1>1, KeysAssumption
<1>4. q # NoProof
  BY <1>3 DEF NoProof
<1>5. \E e \in Entries(n) : e[1] = q.key
  BY <1>2
<1> QED BY <1>3, <1>4, <1>5

\* An op changes nothing where there is no proof.
LEMMA PushNothing == ASSUME NEW op PROVE PushOp(NoProof, op) = NoProof
  BY DEF PushOp

\* get_proof_rec proves the key if it is there, and otherwise its neighbours.
LEMMA GetProofLemma ==
  ASSUME NEW n \in Avl, NEW k \in Nat
  PROVE  Answers(GetProofRec(k, n), n, k)
<1> DEFINE P == {m \in Forest : m \in Avl => Answers(GetProofRec(k, m), m, k)}
<1>1. Nil \in P
  <2>1. GetProofRec(k, Nil) = Nonexist(NoProof, NoProof)
    BY ProofUnfold, TreesUnfold, NilFields
  <2> QED BY <2>1, NilFields, EntriesOfNil DEF Answers, Nonexist, ClosestBelow, ClosestAbove
<1>2. ASSUME NEW m \in Branch, m.left \in P, m.right \in P PROVE m \in P
  <2> SUFFICES ASSUME m \in Avl PROVE Answers(GetProofRec(k, m), m, k)
    BY BranchFields
  <2>1. /\ ~ IsNil(m) /\ m \in Trees /\ m.left \in Avl /\ m.right \in Avl /\ m.key \in Nat
        /\ Entries(m) = Entries(m.left) \cup {<<m.key, m.value>>} \cup Entries(m.right)
        /\ \A e \in Entries(m.left) : e[1] \in Nat /\ e[1] < m.key
        /\ \A e \in Entries(m.right) : e[1] \in Nat /\ e[1] > m.key
    BY BranchFields, AvlCases
  <2> DEFINE here == GetLocalExistenceProof(m)
  <2>2. Proves(here, m) /\ here.key = m.key
    BY <2>1, LocalProofLemma
  <2> HIDE DEF here
  <2>3. <<m.key, m.value>>[1] = m.key
    OBVIOUS
  <2>4. CASE m.key = k
    <3>1. GetProofRec(k, m) = Exist(here)
      BY <2>1, <2>4, ProofUnfold DEF here
    <3> QED BY <2>2, <2>4, <3>1 DEF Answers, Exist
  <2>5. CASE m.key # k /\ m.key > k
    <3> DEFINE inner == InnerOp(<<>>, <<m.hash, ChildHash(m.right)>>)
               sub == GetProofRec(k, m.left)
    <3>1. Answers(sub, m.left, k)
      BY <1>2, <2>1
    <3>2. GetProofRec(k, m) =
            IF sub.exist THEN Exist(PushOp(sub.proof, inner))
            ELSE Nonexist(PushOp(sub.left, inner),
                          IF sub.right = NoProof THEN here ELSE PushOp(sub.right, inner))
      BY <2>1, <2>5, ProofUnfold DEF here
    <3> HIDE DEF sub
    <3>3. \A q : Proves(q, m.left) => Proves(PushOp(q, inner), m) /\ PushOp(q, inner).key = q.key
      BY <2>1, LiftLeft
    <3> HIDE DEF inner
    <3>4. CASE sub.exist = TRUE
      <4>1. Proves(PushOp(sub.proof, inner), m) /\ PushOp(sub.proof, inner).key = k
        BY <3>1, <3>3, <3>4 DEF Answers
      <4>2. GetProofRec(k, m) = Exist(PushOp(sub.proof, inner))
        BY <3>2, <3>4
      <4> QED BY <4>1, <4>2 DEF Answers, Exist
    <3>5. CASE sub.exist = FALSE
      <4>1. /\ \A e \in Entries(m.left) : e[1] # k
            /\ ClosestBelow(sub.left, m.left, k) /\ ClosestAbove(sub.right, m.left, k)
        BY <3>1, <3>5 DEF Answers
      <4> DEFINE near == PushOp(sub.left, inner)
                 far == IF sub.right = NoProof THEN here ELSE PushOp(sub.right, inner)
      <4>2. GetProofRec(k, m) = Nonexist(near, far)
        BY <3>2, <3>5
      <4>3. \A e \in Entries(m) : e[1] < k => e \in Entries(m.left)
        BY <2>1, <2>3, <2>5
      <4>4. \A e \in Entries(m) : e[1] # k
        BY <2>1, <2>3, <2>5, <4>1
      <4>5. ClosestBelow(near, m, k)
        <5>1. CASE sub.left = NoProof
          <6>1. near = NoProof
            BY <5>1, PushNothing
          <6>2. \A e \in Entries(m.left) : ~ (e[1] < k)
            BY <4>1, <5>1, ProvesKey DEF ClosestBelow
          <6> QED BY <4>3, <6>1, <6>2 DEF ClosestBelow
        <5>2. CASE sub.left # NoProof
          <6>1. /\ Proves(sub.left, m.left) /\ sub.left.key < k
                /\ \A e \in Entries(m.left) : e[1] < k => e[1] <= sub.left.key
            BY <4>1, <5>2 DEF ClosestBelow
          <6>2. Proves(near, m) /\ near.key = sub.left.key
            BY <3>3, <6>1
          <6> HIDE DEF near
          <6> QED BY <4>3, <6>1, <6>2 DEF ClosestBelow
        <5> QED BY <5>1, <5>2
      <4>6. ClosestAbove(far, m, k)
        <5>1. CASE sub.right = NoProof
          <6>1. far = here
            BY <5>1
          <6>2. \A e \in Entries(m.left) : ~ (e[1] > k)
            BY <4>1, <5>1, ProvesKey DEF ClosestAbove
          <6>3. \A e \in Entries(m) : e[1] > k => e[1] >= m.key
            BY <2>1, <2>3, <6>2
          <6>4. m.key > k
            BY <2>1, <2>5
          <6> HIDE DEF far
          <6> QED BY <2>2, <6>1, <6>3, <6>4 DEF ClosestAbove
        <5>2. CASE sub.right # NoProof
          <6>1. /\ Proves(sub.right, m.left) /\ sub.right.key > k
                /\ \A e \in Entries(m.left) : e[1] > k => e[1] >= sub.right.key
            BY <4>1, <5>2 DEF ClosestAbove
          <6>2. Proves(far, m) /\ far.key = sub.right.key
            BY <3>3, <5>2, <6>1
          <6>3. sub.right.key < m.key /\ sub.right.key \in Nat
            BY <2>1, <6>1, ProvesKey
          <6>4. \A e \in Entries(m) : e[1] > k => e[1] >= sub.right.key
            BY <2>1, <2>3, <6>1, <6>3
          <6> HIDE DEF far
          <6> QED BY <6>1, <6>2, <6>4 DEF ClosestAbove
        <5> QED BY <5>1, <5>2
      <4> HIDE DEF near, far
      <4> QED BY <4>2, <4>4, <4>5, <4>6 DEF Answers, Nonexist
    <3> QED BY <3>1, <3>4, <3>5 DEF Answers
  <2>6. CASE m.key # k /\ ~ (m.key > k)
    <3> DEFINE inner == InnerOp(<<ChildHash(m.left), m.hash>>, <<>>)
               sub == GetProofRec(k, m.right)
    <3>1. Answers(sub, m.right, k)
      BY <1>2, <2>1
    <3>2. GetProofRec(k, m) =
            IF sub.exist THEN Exist(PushOp(sub.proof, inner))
            ELSE Nonexist(IF sub.left = NoProof THEN here ELSE PushOp(sub.left, inner),
                          PushOp(sub.right, inner))
      BY <2>1, <2>6, ProofUnfold DEF here
    <3> HIDE DEF sub
    <3>3. \A q : Proves(q, m.right) => Proves(PushOp(q, inner), m) /\ PushOp(q, inner).key = q.key
      BY <2>1, LiftRight
    <3> HIDE DEF inner
    <3>4. CASE sub.exist = TRUE
      <4>1. Proves(PushOp(sub.proof, inner), m) /\ PushOp(sub.proof, inner).key = k
        BY <3>1, <3>3, <3>4 DEF Answers
      <4>2. GetProofRec(k, m) = Exist(PushOp(sub.proof, inner))
        BY <3>2, <3>4
      <4> QED BY <4>1, <4>2 DEF Answers, Exist
    <3>5. CASE sub.exist = FALSE
      <4>1. /\ \A e \in Entries(m.right) : e[1] # k
            /\ ClosestBelow(sub.left, m.right, k) /\ ClosestAbove(sub.right, m.right, k)
        BY <3>1, <3>5 DEF Answers
      <4> DEFINE near == PushOp(sub.right, inner)
                 far == IF sub.left = NoProof THEN here ELSE PushOp(sub.left, inner)
      <4>2. GetProofRec(k, m) = Nonexist(far, near)
        BY <3>2, <3>5
      <4>3. \A e \in Entries(m) : e[1] > k => e \in Entries(m.right)
        BY <2>1, <2>3, <2>6
      <4>4. \A e \in Entries(m) : e[1] # k
        BY <2>1, <2>3, <2>6, <4>1
      <4>5. ClosestAbove(near, m, k)
        <5>1. CASE sub.right = NoProof
          <6>1. near = NoProof
            BY <5>1, PushNothing
          <6>2. \A e \in Entries(m.right) : ~ (e[1] > k)
            BY <4>1, <5>1, ProvesKey DEF ClosestAbove
          <6> QED BY <4>3, <6>1, <6>2 DEF ClosestAbove
        <5>2. CASE sub.right # NoProof
          <6>1. /\ Proves(sub.right, m.right) /\ sub.right.key > k
                /\ \A e \in Entries(m.right) : e[1] > k => e[1] >= sub.right.key
            BY <4>1, <5>2 DEF ClosestAbove
          <6>2. Proves(near, m) /\ near.key = sub.right.key
            BY <3>3, <6>1
          <6> HIDE DEF near
          <6> QED BY <4>3, <6>1, <6>2 DEF ClosestAbove
        <5> QED BY <5>1, <5>2
      <4>6. ClosestBelow(far, m, k)
        <5>1. CASE sub.left = NoProof
          <6>1. far = here
            BY <5>1
          <6>2. \A e \in Entries(m.right) : ~ (e[1] < k)
            BY <4>1, <5>1, ProvesKey DEF ClosestBelow
          <6>3. \A e \in Entries(m) : e[1] < k => e[1] <= m.key
            BY <2>1, <2>3, <6>2
          <6>4. m.key < k
            BY <2>1, <2>6
          <6> HIDE DEF far
          <6> QED BY <2>2, <6>1, <6>3, <6>4 DEF ClosestBelow
        <5>2. CASE sub.left # NoProof
          <6>1. /\ Proves(sub.left, m.right) /\ sub.left.key < k
                /\ \A e \in Entries(m.right) : e[1] < k => e[1] <= sub.left.key
            BY <4>1, <5>2 DEF ClosestBelow
          <6>2. Proves(far, m) /\ far.key = sub.left.key
            BY <3>3, <5>2, <6>1
          <6>3. sub.left.key > m.key /\ sub.left.key \in Nat
            BY <2>1, <6>1, ProvesKey
          <6>4. \A e \in Entries(m) : e[1] < k => e[1] <= sub.left.key
            BY <2>1, <2>3, <6>1, <6>3
          <6> HIDE DEF far
          <6> QED BY <6>1, <6>2, <6>4 DEF ClosestBelow
        <5> QED BY <5>1, <5>2
      <4> HIDE DEF near, far
      <4> QED BY <4>2, <4>4, <4>5, <4>6 DEF Answers, Nonexist
    <3> QED BY <3>1, <3>4, <3>5 DEF Answers
  <2> QED BY <2>4, <2>5, <2>6
<1>3. Forest \subseteq P
  <2> HIDE DEF P
  <2> QED BY <1>1, <1>2, ForestInduction
<1> QED BY <1>3, AvlInForest

\* Every proof get_proof returns verifies against the root hash: that of a
\* present key proves its value, that of an absent key its closest neighbours,
\* both if both exist.
THEOREM ProofsAlwaysVerify == Spec => []ProofsVerify
<1>1. AvlInv => ProofsVerify
  <2> SUFFICES ASSUME AvlInv PROVE ProofsVerify
    OBVIOUS
  <2>1. /\ tree \in Avl /\ map \in [Keys -> Vals \cup {0}]
        /\ Entries(tree) = {<<k, map[k]>> : k \in Present}
    BY DEF AvlInv
  <2>2. Present \subseteq Keys /\ Keys \subseteq Nat \ {0}
    BY KeysAssumption DEF Present
  <2>3. /\ \A j \in Present : <<j, map[j]>> \in Entries(tree) /\ <<j, map[j]>>[1] = j
        /\ \A e \in Entries(tree) : e[1] \in Present
    BY <2>1
  <2>4. ASSUME NEW q, Proves(q, tree)
        PROVE  /\ q.key \in Present
               /\ q.value = map[q.key]
               /\ CalculateRoot(q) = tree.merkle
    <3>1. <<q.key, q.value>> \in Entries(tree) /\ CalculateRoot(q) = ChildHash(tree)
      BY <2>4 DEF Proves
    <3>2. q.key \in Present /\ q.value = map[q.key]
      BY <2>1, <3>1
    <3>3. ~ IsNil(tree)
      BY <2>1, <3>1, AvlCases
    <3> QED BY <3>1, <3>2, <3>3 DEF ChildHash
  <2> DEFINE Verifies(q) == q.value = map[q.key] /\ CalculateRoot(q) = tree.merkle
  <2> DEFINE p(k) == GetProofRec(k, tree)
             lower(k) == {j \in Present : j < k}
             upper(k) == {j \in Present : j > k}
  <2>5. ASSUME NEW k \in Keys
        PROVE  IF k \in Present
               THEN p(k).exist /\ p(k).proof.key = k /\ Verifies(p(k).proof)
               ELSE /\ ~p(k).exist
                    /\ p(k).left.key = IF lower(k) = {} THEN 0 ELSE Max(lower(k))
                    /\ p(k).right.key = IF upper(k) = {} THEN 0 ELSE Min(upper(k))
                    /\ p(k).left # NoProof => Verifies(p(k).left)
                    /\ p(k).right # NoProof => Verifies(p(k).right)
    <3>1. Answers(p(k), tree, k)
      BY <2>1, <2>2, GetProofLemma
    <3> HIDE DEF p
    <3>2. CASE k \in Present
      <4>1. p(k).exist = TRUE /\ Proves(p(k).proof, tree) /\ p(k).proof.key = k
        BY <2>3, <3>1, <3>2 DEF Answers
      <4> QED BY <2>4, <3>2, <4>1
    <3>3. CASE k \notin Present
      <4>1. p(k).exist = FALSE /\ ClosestBelow(p(k).left, tree, k) /\ ClosestAbove(p(k).right, tree, k)
        <5>1. ~ (Proves(p(k).proof, tree) /\ p(k).proof.key = k)
          BY <2>4, <3>3
        <5> QED BY <3>1, <5>1 DEF Answers
      <4>2. /\ p(k).left.key = IF lower(k) = {} THEN 0 ELSE Max(lower(k))
            /\ p(k).left # NoProof => Verifies(p(k).left)
        <5>1. CASE p(k).left = NoProof /\ \A e \in Entries(tree) : ~ (e[1] < k)
          <6>1. lower(k) = {}
            BY <2>3, <5>1
          <6> QED BY <5>1, <6>1 DEF NoProof
        <5>2. CASE /\ Proves(p(k).left, tree) /\ p(k).left.key < k
                   /\ \A e \in Entries(tree) : e[1] < k => e[1] <= p(k).left.key
          <6>1. p(k).left.key \in lower(k) /\ \A j \in lower(k) : j <= p(k).left.key
            BY <2>3, <2>4, <5>2
          <6>2. Max(lower(k)) = p(k).left.key
            <7>1. \A j \in lower(k) : j \in Nat
              BY <2>2
            <7> HIDE DEF lower
            <7> QED BY <6>1, <7>1 DEF Max
          <6> QED BY <2>4, <5>2, <6>1, <6>2
        <5> QED BY <4>1, <5>1, <5>2 DEF ClosestBelow
      <4>3. /\ p(k).right.key = IF upper(k) = {} THEN 0 ELSE Min(upper(k))
            /\ p(k).right # NoProof => Verifies(p(k).right)
        <5>1. CASE p(k).right = NoProof /\ \A e \in Entries(tree) : ~ (e[1] > k)
          <6>1. upper(k) = {}
            BY <2>3, <5>1
          <6> QED BY <5>1, <6>1 DEF NoProof
        <5>2. CASE /\ Proves(p(k).right, tree) /\ p(k).right.key > k
                   /\ \A e \in Entries(tree) : e[1] > k => e[1] >= p(k).right.key
          <6>1. p(k).right.key \in upper(k) /\ \A j \in upper(k) : j >= p(k).right.key
            BY <2>3, <2>4, <5>2
          <6>2. Min(upper(k)) = p(k).right.key
            <7>1. \A j \in upper(k) : j \in Nat
              BY <2>2
            <7> HIDE DEF upper
            <7> QED BY <6>1, <7>1 DEF Min
          <6> QED BY <2>4, <5>2, <6>1, <6>2
        <5> QED BY <4>1, <5>1, <5>2 DEF ClosestAbove
      <4> HIDE DEF lower, upper, Verifies
      <4> QED BY <3>3, <4>1, <4>2, <4>3
    <3> QED BY <3>2, <3>3
  <2> QED BY <2>5 DEF ProofsVerify
<1> QED BY <1>1, AvlInvariant, PTL

-----------------------------------------------------------------------------
(* An insertion keeps a balanced tree balanced.                            *)

IsEven(n) == BalanceFactor(n) \in {-1, 0, 1}

Even == {n \in Avl : \A m \in Nodes(n) : IsEven(m)}

\* What a tree r that replaces n may have grown to: by one at most, and then
\* one side of its root is higher, unless the root is low.
Grown(n, r) ==
  /\ r \in Branch /\ r \in Even
  /\ ChildHeight(r) \in {ChildHeight(n), ChildHeight(n) + 1}
  /\ ChildHeight(r) = ChildHeight(n) + 1 /\ ChildHeight(r) >= 2 => BalanceFactor(r) # 0

\* The empty tree is balanced.
LEMMA NilIsEven == Nil \in Even
<1>1. Nodes(Nil) = {}
  BY NodesUnfold, TreesUnfold, NilFields
<1> QED BY <1>1, NilIsAvl DEF Even

\* A tree is balanced when its root is, between two balanced trees.
LEMMA EvenUnfold ==
  ASSUME NEW n \in Branch, n \in Avl
  PROVE  n \in Even <=> IsEven(n) /\ n.left \in Even /\ n.right \in Even
<1>1. ~ IsNil(n) /\ n \in Trees /\ n.left \in Avl /\ n.right \in Avl
  BY BranchFields, AvlCases
<1>2. Nodes(n) = {n} \cup Nodes(n.left) \cup Nodes(n.right)
  BY <1>1, NodesUnfold
<1> QED BY <1>1, <1>2 DEF Even

\* The height of a tree in terms of those of its children.
LEMMA HeightCases ==
  ASSUME NEW n \in Branch, n \in Avl
  PROVE  /\ ChildHeight(n) \in Nat
         /\ ChildHeight(n.left) \in Nat /\ ChildHeight(n.right) \in Nat
         /\ BalanceFactor(n) = ChildHeight(n.left) - ChildHeight(n.right)
         /\ \/ /\ IsNil(n.left) /\ IsNil(n.right)
               /\ ChildHeight(n) = 0
               /\ ChildHeight(n.left) = 0 /\ ChildHeight(n.right) = 0
            \/ /\ ~ IsNil(n.left) \/ ~ IsNil(n.right)
               /\ ChildHeight(n) >= 1 + ChildHeight(n.left)
               /\ ChildHeight(n) >= 1 + ChildHeight(n.right)
               /\ \/ ChildHeight(n) = 1 + ChildHeight(n.left)
                  \/ ChildHeight(n) = 1 + ChildHeight(n.right)
<1>1. ~ IsNil(n) /\ n.left \in Forest /\ n.right \in Forest /\ n \in Forest
  BY BranchFields
<1>2. /\ ChildHeight(n) \in Nat
      /\ ChildHeight(n.left) \in Nat /\ ChildHeight(n.right) \in Nat
  BY <1>1, ChildLemma
<1>3. ChildHeight(n) = UpdateHeight(n)
  BY <1>1, AvlUnfold DEF ChildHeight, Settled
<1>4. CASE IsNil(n.left) /\ IsNil(n.right)
  <2>1. ChildHeight(n.left) = 0 /\ ChildHeight(n.right) = 0
    BY <1>4 DEF ChildHeight
  <2>2. ChildHeight(n) = 0
    BY <1>3, <1>4 DEF UpdateHeight
  <2> QED BY <1>2, <1>4, <2>1, <2>2 DEF BalanceFactor
<1>5. CASE ~ (IsNil(n.left) /\ IsNil(n.right))
  <2>1. ChildHeight(n) = 1 + IF ChildHeight(n.left) > ChildHeight(n.right)
                             THEN ChildHeight(n.left) ELSE ChildHeight(n.right)
    BY <1>3, <1>5 DEF UpdateHeight
  <2> QED BY <1>2, <1>5, <2>1 DEF BalanceFactor
<1> QED BY <1>4, <1>5

\* Where balance_node puts the grandchildren of a node whose left child is too high.
LEMMA HeavyLeft ==
  ASSUME NEW n \in Branch, n \in Avl, BalanceFactor(n) >= 2
  PROVE  LET r == BalanceNode(n)
             c == n.left
         IN  /\ r \in Branch /\ r \in Avl /\ c \in Branch /\ c \in Avl
             /\ r.right \in Branch /\ r.right \in Avl /\ r.right.right = n.right
             /\ ~ (BalanceFactor(c) < 1) => r.left = c.left /\ r.right.left = c.right
             /\ BalanceFactor(c) < 1 =>
                  /\ c.right \in Branch /\ c.right \in Avl
                  /\ r.left \in Branch /\ r.left \in Avl
                  /\ r.left.left = c.left /\ r.left.right = c.right.left
                  /\ r.right.left = c.right.right
<1> DEFINE c == n.left
<1>1. n \in Unsettled /\ BalanceFactor(n) \in Int /\ ~ (BalanceFactor(n) <= -2)
  BY AvlUnfold, HeightLemma
<1>2. c \in Branch /\ c \in Avl /\ (BalanceFactor(c) < 1 => c.right \in Branch)
  BY TallLeft
<1>3. c \in Unsettled /\ c.right \in Avl
  BY <1>2, AvlUnfold DEF Unsettled
<1>4. CASE BalanceFactor(c) < 1
  <2> DEFINE t == RotateLeft(c)
             m == [n EXCEPT !.left = t]
  <2>1. /\ t \in Branch /\ t \in Avl /\ Entries(t) = Entries(c)
        /\ t.right = c.right.right
        /\ t.left \in Branch /\ t.left \in Avl
        /\ t.left.right = c.right.left /\ t.left.left = c.left
    BY <1>2, <1>3, <1>4, RotateLeftLemma
  <2>2. BalanceNode(n) = RotateRight(m)
    BY <1>1, <1>4 DEF BalanceNode
  <2> HIDE DEF t
  <2>3. Below(t, n.key)
    BY <1>1, <2>1 DEF Unsettled, InOrder, Below
  <2>4. m \in Unsettled /\ m.left = t /\ m.right = n.right
    BY <1>1, <2>1, <2>3, PutLeft
  <2> HIDE DEF m
  <2>5. LET r == RotateRight(m)
        IN  /\ r \in Branch /\ r \in Avl
            /\ r.left = m.left.left
            /\ r.right \in Branch /\ r.right \in Avl
            /\ r.right.left = m.left.right
            /\ r.right.right = m.right
    BY <2>1, <2>4, RotateRightLemma
  <2> QED BY <1>2, <1>3, <1>4, <2>1, <2>2, <2>4, <2>5
<1>5. CASE ~ (BalanceFactor(c) < 1)
  <2>1. BalanceNode(n) = RotateRight(n)
    BY <1>1, <1>5 DEF BalanceNode
  <2>2. LET r == RotateRight(n)
        IN  /\ r \in Branch /\ r \in Avl
            /\ r.left = c.left
            /\ r.right \in Branch /\ r.right \in Avl
            /\ r.right.left = c.right
            /\ r.right.right = n.right
    BY <1>1, <1>2, RotateRightLemma
  <2> QED BY <1>2, <1>5, <2>1, <2>2
<1> QED BY <1>4, <1>5

\* Where balance_node puts the grandchildren of a node whose right child is too high.
LEMMA HeavyRight ==
  ASSUME NEW n \in Branch, n \in Avl, BalanceFactor(n) <= -2
  PROVE  LET r == BalanceNode(n)
             c == n.right
         IN  /\ r \in Branch /\ r \in Avl /\ c \in Branch /\ c \in Avl
             /\ r.left \in Branch /\ r.left \in Avl /\ r.left.left = n.left
             /\ ~ (BalanceFactor(c) > -1) => r.right = c.right /\ r.left.right = c.left
             /\ BalanceFactor(c) > -1 =>
                  /\ c.left \in Branch /\ c.left \in Avl
                  /\ r.right \in Branch /\ r.right \in Avl
                  /\ r.right.right = c.right /\ r.right.left = c.left.right
                  /\ r.left.right = c.left.left
<1> DEFINE c == n.right
<1>1. n \in Unsettled /\ BalanceFactor(n) \in Int /\ ~ (BalanceFactor(n) >= 2)
  BY AvlUnfold, HeightLemma
<1>2. c \in Branch /\ c \in Avl /\ (BalanceFactor(c) > -1 => c.left \in Branch)
  BY TallRight
<1>3. c \in Unsettled /\ c.left \in Avl
  BY <1>2, AvlUnfold DEF Unsettled
<1>4. CASE BalanceFactor(c) > -1
  <2> DEFINE t == RotateRight(c)
             m == [n EXCEPT !.right = t]
  <2>1. /\ t \in Branch /\ t \in Avl /\ Entries(t) = Entries(c)
        /\ t.left = c.left.left
        /\ t.right \in Branch /\ t.right \in Avl
        /\ t.right.left = c.left.right /\ t.right.right = c.right
    BY <1>2, <1>3, <1>4, RotateRightLemma
  <2>2. BalanceNode(n) = RotateLeft(m)
    BY <1>1, <1>4 DEF BalanceNode
  <2> HIDE DEF t
  <2>3. Above(t, n.key)
    BY <1>1, <2>1 DEF Unsettled, InOrder, Above
  <2>4. m \in Unsettled /\ m.right = t /\ m.left = n.left
    BY <1>1, <2>1, <2>3, PutRight
  <2> HIDE DEF m
  <2>5. LET r == RotateLeft(m)
        IN  /\ r \in Branch /\ r \in Avl
            /\ r.right = m.right.right
            /\ r.left \in Branch /\ r.left \in Avl
            /\ r.left.right = m.right.left
            /\ r.left.left = m.left
    BY <2>1, <2>4, RotateLeftLemma
  <2> QED BY <1>2, <1>3, <1>4, <2>1, <2>2, <2>4, <2>5
<1>5. CASE ~ (BalanceFactor(c) > -1)
  <2>1. BalanceNode(n) = RotateLeft(n)
    BY <1>1, <1>5 DEF BalanceNode
  <2>2. LET r == RotateLeft(n)
        IN  /\ r \in Branch /\ r \in Avl
            /\ r.right = c.right
            /\ r.left \in Branch /\ r.left \in Avl
            /\ r.left.right = c.left
            /\ r.left.left = n.left
    BY <1>1, <1>2, RotateLeftLemma
  <2> QED BY <1>2, <1>5, <2>1, <2>2
<1> QED BY <1>4, <1>5

\* balance_node after the left child has grown.
LEMMA GrownLeft ==
  ASSUME NEW n \in Branch, n \in Even,
         NEW u \in Branch, u \in Avl, u.right = n.right, Grown(n.left, u.left),
         IsNil(n.left) => ChildHeight(u.left) = 0
  PROVE  Grown(n, BalanceNode(u))
<1> DEFINE r == BalanceNode(u)
           c == u.left
           H(x) == ChildHeight(x)
<1>1. /\ n \in Avl /\ n.left \in Even /\ n.right \in Even /\ BalanceFactor(n) \in {-1, 0, 1}
  BY EvenUnfold DEF Even, IsEven
<1>2. /\ c \in Branch /\ c \in Even /\ c \in Avl /\ ~ IsNil(c)
      /\ H(c) \in {H(n.left), H(n.left) + 1}
      /\ H(c) = H(n.left) + 1 /\ H(c) >= 2 => BalanceFactor(c) # 0
      /\ BalanceFactor(c) \in {-1, 0, 1} /\ c.left \in Even /\ c.right \in Even
  <2>1. c \in Branch /\ c \in Even /\ c \in Avl
    BY DEF Grown, Even
  <2> QED BY <2>1, EvenUnfold, BranchFields DEF Grown, IsEven
<1>3. /\ H(n) \in Nat /\ H(n.left) \in Nat /\ H(n.right) \in Nat
      /\ BalanceFactor(n) = H(n.left) - H(n.right)
      /\ \/ IsNil(n.left) /\ IsNil(n.right) /\ H(n) = 0 /\ H(n.left) = 0 /\ H(n.right) = 0
         \/ /\ H(n) >= 1 + H(n.left) /\ H(n) >= 1 + H(n.right)
            /\ H(n) = 1 + H(n.left) \/ H(n) = 1 + H(n.right)
  BY <1>1, HeightCases
<1>4. /\ H(u) \in Nat /\ H(c) \in Nat
      /\ BalanceFactor(u) = H(u.left) - H(u.right)
      /\ H(u) >= 1 + H(u.left) /\ H(u) >= 1 + H(u.right)
      /\ H(u) = 1 + H(u.left) \/ H(u) = 1 + H(u.right)
  BY <1>2, HeightCases
<1>5. ~ (BalanceFactor(u) <= -2)
  BY <1>1, <1>2, <1>3, <1>4
<1>6. CASE ~ (BalanceFactor(u) >= 2)
  <2>1. r = u
    BY <1>5, <1>6 DEF BalanceNode
  <2>2. BalanceFactor(u) \in {-1, 0, 1}
    BY <1>1, <1>2, <1>3, <1>4, <1>6
  <2>3. u \in Even
    BY <1>1, <1>2, <2>2, EvenUnfold DEF IsEven
  <2>4. H(u) \in {H(n), H(n) + 1}
    BY <1>1, <1>2, <1>3, <1>4
  <2>5. H(u) = H(n) + 1 /\ H(u) >= 2 => BalanceFactor(u) # 0
    BY <1>1, <1>2, <1>3, <1>4
  <2> QED BY <2>1, <2>3, <2>4, <2>5 DEF Grown
<1>7. CASE BalanceFactor(u) >= 2
  <2>1. /\ H(c) = H(n.right) + 2 /\ H(n.left) = H(n.right) + 1 /\ H(n) = H(c)
        /\ BalanceFactor(c) \in {-1, 1}
    BY <1>1, <1>2, <1>3, <1>4, <1>7
  <2>2. /\ r \in Branch /\ r \in Avl
        /\ r.right \in Branch /\ r.right \in Avl /\ r.right.right = n.right
        /\ ~ (BalanceFactor(c) < 1) => r.left = c.left /\ r.right.left = c.right
        /\ BalanceFactor(c) < 1 =>
             /\ c.right \in Branch /\ c.right \in Avl
             /\ r.left \in Branch /\ r.left \in Avl
             /\ r.left.left = c.left /\ r.left.right = c.right.left
             /\ r.right.left = c.right.right
    BY <1>7, HeavyLeft
  <2> DEFINE s == r.right
  <2> HIDE DEF r, c
  <2>3. /\ H(c.left) \in Nat /\ H(c.right) \in Nat
        /\ BalanceFactor(c) = H(c.left) - H(c.right)
        /\ H(c) = 1 + H(c.left) \/ H(c) = 1 + H(c.right)
        /\ H(c) >= 1 + H(c.left) /\ H(c) >= 1 + H(c.right)
    BY <1>2, <1>3, <2>1, HeightCases
  <2>4. /\ H(s) \in Nat /\ H(s.left) \in Nat /\ H(s.right) \in Nat
        /\ BalanceFactor(s) = H(s.left) - H(s.right)
        /\ \/ /\ IsNil(s.left) /\ IsNil(s.right)
              /\ H(s) = 0 /\ H(s.left) = 0 /\ H(s.right) = 0
           \/ /\ H(s) >= 1 + H(s.left) /\ H(s) >= 1 + H(s.right)
              /\ H(s) = 1 + H(s.left) \/ H(s) = 1 + H(s.right)
    BY <2>2, HeightCases
  <2>5. /\ H(r) \in Nat /\ H(r.left) \in Nat /\ H(r.right) \in Nat
        /\ BalanceFactor(r) = H(r.left) - H(r.right)
        /\ H(r) >= 1 + H(r.left) /\ H(r) >= 1 + H(r.right)
        /\ H(r) = 1 + H(r.left) \/ H(r) = 1 + H(r.right)
    <3>1. ~ IsNil(r.right)
      BY <2>2, BranchFields
    <3> QED BY <2>2, <3>1, HeightCases
  <2>6. CASE BalanceFactor(c) = 1
    <3>1. r.left = c.left /\ s.left = c.right /\ s.right = n.right
      BY <2>2, <2>6
    <3>2. H(c.left) = H(n.right) + 1 /\ H(c.right) = H(n.right)
      BY <1>3, <2>1, <2>3, <2>6
    <3>3. /\ BalanceFactor(s) \in {-1, 0, 1}
          /\ H(s) = 1 + H(n.right) \/ (H(s) = 0 /\ H(n.right) = 0)
      BY <1>3, <2>4, <3>1, <3>2
    <3>4. BalanceFactor(r) \in {-1, 0, 1} /\ H(r) = H(n)
      BY <1>3, <2>1, <2>5, <3>1, <3>2, <3>3
    <3>5. s \in Even
      BY <1>1, <1>2, <2>2, <3>1, <3>3, EvenUnfold DEF IsEven
    <3>6. r \in Even
      BY <1>2, <2>2, <3>1, <3>4, <3>5, EvenUnfold DEF IsEven
    <3>7. H(n) \in Nat /\ H(r) # H(n) + 1
      BY <1>3, <3>4
    <3> QED BY <2>2, <3>4, <3>6, <3>7 DEF Grown, r
  <2>7. CASE BalanceFactor(c) = -1
    <3> DEFINE d == c.right
               a == r.left
    <3>1. /\ d \in Branch /\ d \in Avl /\ a \in Branch /\ a \in Avl
          /\ a.left = c.left /\ a.right = d.left
          /\ s.left = d.right /\ s.right = n.right
      BY <2>2, <2>7
    <3>2. d \in Even
      BY <1>2
    <3> HIDE DEF d, a, s
    <3>3. /\ d.left \in Even /\ d.right \in Even /\ BalanceFactor(d) \in {-1, 0, 1}
      BY <3>1, <3>2, EvenUnfold DEF IsEven
    <3>4. H(c.left) = H(n.right) /\ H(d) = H(n.right) + 1
      BY <1>3, <2>1, <2>3, <2>7 DEF d
    <3>5. /\ H(d.left) \in Nat /\ H(d.right) \in Nat
          /\ BalanceFactor(d) = H(d.left) - H(d.right)
          /\ ~ IsNil(d.left) \/ ~ IsNil(d.right)
          /\ H(d) = 1 + H(d.left) \/ H(d) = 1 + H(d.right)
          /\ H(d) >= 1 + H(d.left) /\ H(d) >= 1 + H(d.right)
      <4>1. H(d) # 0
        BY <1>3, <3>4
      <4> QED BY <3>1, <4>1, HeightCases
    <3>6. /\ H(a) \in Nat /\ H(a.left) \in Nat /\ H(a.right) \in Nat
          /\ BalanceFactor(a) = H(a.left) - H(a.right)
          /\ \/ /\ IsNil(a.left) /\ IsNil(a.right)
                /\ H(a) = 0 /\ H(a.left) = 0 /\ H(a.right) = 0
             \/ /\ H(a) >= 1 + H(a.left) /\ H(a) >= 1 + H(a.right)
                /\ H(a) = 1 + H(a.left) \/ H(a) = 1 + H(a.right)
      BY <3>1, HeightCases
    <3>7. BalanceFactor(a) \in {-1, 0, 1} /\ BalanceFactor(s) \in {-1, 0, 1}
      BY <1>3, <2>4, <3>1, <3>3, <3>4, <3>5, <3>6
    <3>8. /\ H(a) = 1 + H(n.right) \/ (H(a) = 0 /\ H(n.right) = 0 /\ IsNil(d.left))
          /\ H(s) = 1 + H(n.right) \/ (H(s) = 0 /\ H(n.right) = 0 /\ IsNil(d.right))
      BY <1>3, <2>4, <3>1, <3>3, <3>4, <3>5, <3>6
    <3>9. BalanceFactor(r) \in {-1, 0, 1} /\ H(r) = H(n)
      BY <1>3, <2>1, <2>5, <3>5, <3>8 DEF a, s
    <3>10. a \in Even /\ s \in Even
      <4>1. a \in Even
        BY <1>2, <3>1, <3>3, <3>7, EvenUnfold DEF IsEven
      <4>2. s \in Even
        BY <1>1, <2>2, <3>1, <3>3, <3>7, EvenUnfold DEF IsEven, s
      <4> QED BY <4>1, <4>2
    <3>11. r \in Even
      BY <2>2, <3>9, <3>10, EvenUnfold DEF IsEven, a, s
    <3>12. H(n) \in Nat /\ H(r) # H(n) + 1
      BY <1>3, <3>9
    <3> QED BY <2>2, <3>9, <3>11, <3>12 DEF Grown, r
  <2> QED BY <2>1, <2>6, <2>7
<1> QED BY <1>6, <1>7

\* balance_node after the right child has grown.
LEMMA GrownRight ==
  ASSUME NEW n \in Branch, n \in Even,
         NEW u \in Branch, u \in Avl, u.left = n.left, Grown(n.right, u.right),
         IsNil(n.right) => ChildHeight(u.right) = 0
  PROVE  Grown(n, BalanceNode(u))
<1> DEFINE r == BalanceNode(u)
           c == u.right
           H(x) == ChildHeight(x)
<1>1. /\ n \in Avl /\ n.right \in Even /\ n.left \in Even /\ BalanceFactor(n) \in {-1, 0, 1}
  BY EvenUnfold DEF Even, IsEven
<1>2. /\ c \in Branch /\ c \in Even /\ c \in Avl /\ ~ IsNil(c)
      /\ H(c) \in {H(n.right), H(n.right) + 1}
      /\ H(c) = H(n.right) + 1 /\ H(c) >= 2 => BalanceFactor(c) # 0
      /\ BalanceFactor(c) \in {-1, 0, 1} /\ c.left \in Even /\ c.right \in Even
  <2>1. c \in Branch /\ c \in Even /\ c \in Avl
    BY DEF Grown, Even
  <2> QED BY <2>1, EvenUnfold, BranchFields DEF Grown, IsEven
<1>3. /\ H(n) \in Nat /\ H(n.left) \in Nat /\ H(n.right) \in Nat
      /\ BalanceFactor(n) = H(n.left) - H(n.right)
      /\ \/ IsNil(n.left) /\ IsNil(n.right) /\ H(n) = 0 /\ H(n.left) = 0 /\ H(n.right) = 0
         \/ /\ H(n) >= 1 + H(n.left) /\ H(n) >= 1 + H(n.right)
            /\ H(n) = 1 + H(n.left) \/ H(n) = 1 + H(n.right)
  BY <1>1, HeightCases
<1>4. /\ H(u) \in Nat /\ H(c) \in Nat
      /\ BalanceFactor(u) = H(u.left) - H(u.right)
      /\ H(u) >= 1 + H(u.left) /\ H(u) >= 1 + H(u.right)
      /\ H(u) = 1 + H(u.left) \/ H(u) = 1 + H(u.right)
  BY <1>2, HeightCases
<1>5. ~ (BalanceFactor(u) >= 2)
  BY <1>1, <1>2, <1>3, <1>4
<1>6. CASE ~ (BalanceFactor(u) <= -2)
  <2>1. r = u
    BY <1>5, <1>6 DEF BalanceNode
  <2>2. BalanceFactor(u) \in {-1, 0, 1}
    BY <1>1, <1>2, <1>3, <1>4, <1>6
  <2>3. u \in Even
    BY <1>1, <1>2, <2>2, EvenUnfold DEF IsEven
  <2>4. H(u) \in {H(n), H(n) + 1}
    BY <1>1, <1>2, <1>3, <1>4
  <2>5. H(u) = H(n) + 1 /\ H(u) >= 2 => BalanceFactor(u) # 0
    BY <1>1, <1>2, <1>3, <1>4
  <2> QED BY <2>1, <2>3, <2>4, <2>5 DEF Grown
<1>7. CASE BalanceFactor(u) <= -2
  <2>1. /\ H(c) = H(n.left) + 2 /\ H(n.right) = H(n.left) + 1 /\ H(n) = H(c)
        /\ BalanceFactor(c) \in {-1, 1}
    BY <1>1, <1>2, <1>3, <1>4, <1>7
  <2>2. /\ r \in Branch /\ r \in Avl
        /\ r.left \in Branch /\ r.left \in Avl /\ r.left.left = n.left
        /\ ~ (BalanceFactor(c) > -1) => r.right = c.right /\ r.left.right = c.left
        /\ BalanceFactor(c) > -1 =>
             /\ c.left \in Branch /\ c.left \in Avl
             /\ r.right \in Branch /\ r.right \in Avl
             /\ r.right.right = c.right /\ r.right.left = c.left.right
             /\ r.left.right = c.left.left
    BY <1>7, HeavyRight
  <2> DEFINE s == r.left
  <2> HIDE DEF r, c
  <2>3. /\ H(c.left) \in Nat /\ H(c.right) \in Nat
        /\ BalanceFactor(c) = H(c.left) - H(c.right)
        /\ H(c) = 1 + H(c.left) \/ H(c) = 1 + H(c.right)
        /\ H(c) >= 1 + H(c.left) /\ H(c) >= 1 + H(c.right)
    BY <1>2, <1>3, <2>1, HeightCases
  <2>4. /\ H(s) \in Nat /\ H(s.left) \in Nat /\ H(s.right) \in Nat
        /\ BalanceFactor(s) = H(s.left) - H(s.right)
        /\ \/ /\ IsNil(s.left) /\ IsNil(s.right)
              /\ H(s) = 0 /\ H(s.left) = 0 /\ H(s.right) = 0
           \/ /\ H(s) >= 1 + H(s.left) /\ H(s) >= 1 + H(s.right)
              /\ H(s) = 1 + H(s.left) \/ H(s) = 1 + H(s.right)
    BY <2>2, HeightCases
  <2>5. /\ H(r) \in Nat /\ H(r.left) \in Nat /\ H(r.right) \in Nat
        /\ BalanceFactor(r) = H(r.left) - H(r.right)
        /\ H(r) >= 1 + H(r.left) /\ H(r) >= 1 + H(r.right)
        /\ H(r) = 1 + H(r.left) \/ H(r) = 1 + H(r.right)
    <3>1. ~ IsNil(r.left)
      BY <2>2, BranchFields
    <3> QED BY <2>2, <3>1, HeightCases
  <2>6. CASE BalanceFactor(c) = -1
    <3>1. r.right = c.right /\ s.right = c.left /\ s.left = n.left
      BY <2>2, <2>6
    <3>2. H(c.right) = H(n.left) + 1 /\ H(c.left) = H(n.left)
      BY <1>3, <2>1, <2>3, <2>6
    <3>3. /\ BalanceFactor(s) \in {-1, 0, 1}
          /\ H(s) = 1 + H(n.left) \/ (H(s) = 0 /\ H(n.left) = 0)
      BY <1>3, <2>4, <3>1, <3>2
    <3>4. BalanceFactor(r) \in {-1, 0, 1} /\ H(r) = H(n)
      BY <1>3, <2>1, <2>5, <3>1, <3>2, <3>3
    <3>5. s \in Even
      BY <1>1, <1>2, <2>2, <3>1, <3>3, EvenUnfold DEF IsEven
    <3>6. r \in Even
      BY <1>2, <2>2, <3>1, <3>4, <3>5, EvenUnfold DEF IsEven
    <3>7. H(n) \in Nat /\ H(r) # H(n) + 1
      BY <1>3, <3>4
    <3> QED BY <2>2, <3>4, <3>6, <3>7 DEF Grown, r
  <2>7. CASE BalanceFactor(c) = 1
    <3> DEFINE d == c.left
               a == r.right
    <3>1. /\ d \in Branch /\ d \in Avl /\ a \in Branch /\ a \in Avl
          /\ a.right = c.right /\ a.left = d.right
          /\ s.right = d.left /\ s.left = n.left
      BY <2>2, <2>7
    <3>2. d \in Even
      BY <1>2
    <3> HIDE DEF d, a, s
    <3>3. /\ d.left \in Even /\ d.right \in Even /\ BalanceFactor(d) \in {-1, 0, 1}
      BY <3>1, <3>2, EvenUnfold DEF IsEven
    <3>4. H(c.right) = H(n.left) /\ H(d) = H(n.left) + 1
      BY <1>3, <2>1, <2>3, <2>7 DEF d
    <3>5. /\ H(d.left) \in Nat /\ H(d.right) \in Nat
          /\ BalanceFactor(d) = H(d.left) - H(d.right)
          /\ ~ IsNil(d.left) \/ ~ IsNil(d.right)
          /\ H(d) = 1 + H(d.left) \/ H(d) = 1 + H(d.right)
          /\ H(d) >= 1 + H(d.left) /\ H(d) >= 1 + H(d.right)
      <4>1. H(d) # 0
        BY <1>3, <3>4
      <4> QED BY <3>1, <4>1, HeightCases
    <3>6. /\ H(a) \in Nat /\ H(a.left) \in Nat /\ H(a.right) \in Nat
          /\ BalanceFactor(a) = H(a.left) - H(a.right)
          /\ \/ /\ IsNil(a.left) /\ IsNil(a.right)
                /\ H(a) = 0 /\ H(a.left) = 0 /\ H(a.right) = 0
             \/ /\ H(a) >= 1 + H(a.left) /\ H(a) >= 1 + H(a.right)
                /\ H(a) = 1 + H(a.left) \/ H(a) = 1 + H(a.right)
      BY <3>1, HeightCases
    <3>7. BalanceFactor(a) \in {-1, 0, 1} /\ BalanceFactor(s) \in {-1, 0, 1}
      BY <1>3, <2>4, <3>1, <3>3, <3>4, <3>5, <3>6
    <3>8. /\ H(a) = 1 + H(n.left) \/ (H(a) = 0 /\ H(n.left) = 0 /\ IsNil(d.right))
          /\ H(s) = 1 + H(n.left) \/ (H(s) = 0 /\ H(n.left) = 0 /\ IsNil(d.left))
      BY <1>3, <2>4, <3>1, <3>3, <3>4, <3>5, <3>6
    <3>9. BalanceFactor(r) \in {-1, 0, 1} /\ H(r) = H(n)
      BY <1>3, <2>1, <2>5, <3>5, <3>8 DEF a, s
    <3>10. a \in Even /\ s \in Even
      <4>1. a \in Even
        BY <1>2, <3>1, <3>3, <3>7, EvenUnfold DEF IsEven
      <4>2. s \in Even
        BY <1>1, <2>2, <3>1, <3>3, <3>7, EvenUnfold DEF IsEven, s
      <4> QED BY <4>1, <4>2
    <3>11. r \in Even
      BY <2>2, <3>9, <3>10, EvenUnfold DEF IsEven, a, s
    <3>12. H(n) \in Nat /\ H(r) # H(n) + 1
      BY <1>3, <3>9
    <3> QED BY <2>2, <3>9, <3>11, <3>12 DEF Grown, r
  <2> QED BY <2>1, <2>6, <2>7
<1> QED BY <1>6, <1>7

\* insert leaves a balanced tree balanced and at most one higher.
LEMMA InsertGrows ==
  ASSUME NEW n \in Even, NEW k \in Keys, NEW v \in Vals
  PROVE  /\ Grown(n, InsertRec(n, k, v))
         /\ IsNil(n) => ChildHeight(InsertRec(n, k, v)) = 0
<1>0. k \in Nat /\ k # 0
  BY KeysAssumption
<1> DEFINE Good(m, r) == Grown(m, r) /\ (IsNil(m) => ChildHeight(r) = 0)
           P == {m \in Forest : m \in Even => Good(m, InsertRec(m, k, v))}
<1>1. Nil \in P
  <2> DEFINE r == AsNodeRef(k, v)
  <2>1. InsertRec(Nil, k, v) = r
    BY InsertUnfold, TreesUnfold, NilFields
  <2>2. r \in Branch /\ r \in Avl
    BY <2>1, NilIsAvl, InsertLemma
  <2>3. r.left = Nil /\ r.right = Nil /\ r.height = 0
    BY DEF AsNodeRef
  <2> HIDE DEF r
  <2>4. ChildHeight(r) = 0 /\ ChildHeight(Nil) = 0
    BY <2>2, <2>3, BranchFields, NilFields DEF ChildHeight
  <2>5. BalanceFactor(r) = 0
    BY <2>3, <2>4 DEF BalanceFactor
  <2>6. r \in Even
    BY <2>2, <2>3, <2>5, NilIsEven, EvenUnfold DEF IsEven
  <2> QED BY <2>1, <2>2, <2>4, <2>6, NilFields DEF Grown
<1>2. ASSUME NEW m \in Branch, m.left \in P, m.right \in P PROVE m \in P
  <2> SUFFICES ASSUME m \in Even PROVE Good(m, InsertRec(m, k, v))
    BY BranchFields
  <2>1. /\ m \in Avl /\ ~ IsNil(m) /\ m \in Trees /\ m \in Unsettled /\ m.key \in Nat
        /\ m.left \in Avl /\ m.right \in Avl
        /\ m.left \in Even /\ m.right \in Even
    BY BranchFields, AvlCases, EvenUnfold DEF Even
  <2>2. /\ \A e \in Entries(m.left) : e[1] \in Nat /\ e[1] < m.key
        /\ \A e \in Entries(m.right) : e[1] \in Nat /\ e[1] > m.key
    BY <2>1, AvlCases
  <2>3. \A x, y : <<x, y>>[1] = x
    OBVIOUS
  <2>4. CASE m.key > k
    <3> DEFINE t == InsertRec(m.left, k, v)
               x == [m EXCEPT !.left = t]
    <3>1. InsertRec(m, k, v) = BalanceNode(Update(x))
      <4>1. m.key > k
        BY <1>0, <2>1, <2>4
      <4> HIDE DEF Good
      <4> QED BY <2>1, <4>1, InsertUnfold
    <3>2. t \in Avl /\ Entries(t) = {e \in Entries(m.left) : e[1] # k} \cup {<<k, v>>}
      BY <2>1, InsertLemma
    <3>3. Good(m.left, t)
      BY <1>2, <2>1
    <3> HIDE DEF t
    <3>4. Below(t, m.key)
      BY <2>2, <2>3, <2>4, <3>2 DEF Below
    <3>5. x \in Unsettled /\ x.left = t /\ x.right = m.right
      BY <2>1, <3>2, <3>4, PutLeft
    <3> HIDE DEF x
    <3>6. /\ Update(x) \in Branch /\ Update(x) \in Avl
          /\ Update(x).left = t /\ Update(x).right = m.right
      BY <3>5, UpdateLemma
    <3>7. Grown(m, BalanceNode(Update(x)))
      BY <3>3, <3>6, GrownLeft
    <3> QED BY <2>1, <3>1, <3>7
  <2>5. CASE m.key < k
    <3> DEFINE t == InsertRec(m.right, k, v)
               x == [m EXCEPT !.right = t]
    <3>1. InsertRec(m, k, v) = BalanceNode(Update(x))
      <4>1. m.key < k /\ ~ (m.key > k)
        BY <1>0, <2>1, <2>5
      <4> HIDE DEF Good
      <4> QED BY <2>1, <4>1, InsertUnfold
    <3>2. t \in Avl /\ Entries(t) = {e \in Entries(m.right) : e[1] # k} \cup {<<k, v>>}
      BY <2>1, InsertLemma
    <3>3. Good(m.right, t)
      BY <1>2, <2>1
    <3> HIDE DEF t
    <3>4. Above(t, m.key)
      BY <2>2, <2>3, <2>5, <3>2 DEF Above
    <3>5. x \in Unsettled /\ x.right = t /\ x.left = m.left
      BY <2>1, <3>2, <3>4, PutRight
    <3> HIDE DEF x
    <3>6. /\ Update(x) \in Branch /\ Update(x) \in Avl
          /\ Update(x).right = t /\ Update(x).left = m.left
      BY <3>5, UpdateLemma
    <3>7. Grown(m, BalanceNode(Update(x)))
      BY <3>3, <3>6, GrownRight
    <3> QED BY <2>1, <3>1, <3>7
  <2>6. CASE m.key = k
    <3> DEFINE x == SetValue(m, v)
               u == Update(x)
    <3>1. InsertRec(m, k, v) = BalanceNode(u)
      <4>1. ~ (m.key > k) /\ ~ (m.key < k)
        BY <1>0, <2>1, <2>6
      <4> HIDE DEF Good
      <4> QED BY <2>1, <4>1, InsertUnfold
    <3>2. /\ x \in Branch /\ x.left = m.left /\ x.right = m.right
          /\ x.key = m.key /\ x.value = v /\ x.hash = LocalHash(m.key, v)
      BY <2>6 DEF SetValue, Branch, LocalHash
    <3> HIDE DEF x
    <3>3. x \in Unsettled
      BY <2>1, <3>2 DEF Unsettled, InOrder
    <3>4. /\ u \in Branch /\ u \in Avl /\ u.left = m.left /\ u.right = m.right
          /\ u.height = UpdateHeight(x)
      BY <3>2, <3>3, UpdateLemma
    <3> HIDE DEF u
    <3>5. ChildHeight(u) = ChildHeight(m)
      <4>1. ~ IsNil(u) /\ ~ IsNil(m) /\ m.height = UpdateHeight(m)
        BY <2>1, <3>4, BranchFields, AvlUnfold DEF Settled
      <4>2. UpdateHeight(x) = UpdateHeight(m)
        BY <3>2 DEF UpdateHeight
      <4> QED BY <3>4, <4>1, <4>2 DEF ChildHeight
    <3>6. BalanceFactor(u) = BalanceFactor(m) /\ BalanceFactor(m) \in {-1, 0, 1}
      BY <2>1, <3>4, EvenUnfold DEF BalanceFactor, IsEven
    <3>7. BalanceNode(u) = u
      BY <3>6 DEF BalanceNode
    <3>8. u \in Even
      BY <2>1, <3>4, <3>6, EvenUnfold DEF IsEven
    <3>9. ChildHeight(m) \in Nat /\ ChildHeight(m) # ChildHeight(m) + 1
      BY <2>1, HeightCases
    <3> QED BY <2>1, <3>1, <3>4, <3>5, <3>7, <3>8, <3>9 DEF Grown
  <2> QED BY <1>0, <2>1, <2>4, <2>5, <2>6
<1>3. Forest \subseteq P
  <2> HIDE DEF P
  <2> QED BY <1>1, <1>2, ForestInduction
<1> QED BY <1>3, AvlInForest DEF Even

\* An insertion keeps a balanced tree balanced, whatever insertions and
\* removals have shaped it: the rotations on the way up are enough.
THEOREM InsertionKeepsBalance == Spec => InsertKeepsBalance
<1>1. AvlInv /\ [Next]_vars =>
        [\A k \in Keys, v \in Vals : TreeInsert(k, v) /\ Balanced => Balanced']_vars
  <2> SUFFICES ASSUME AvlInv, NEW k \in Keys, NEW v \in Vals,
                      TreeInsert(k, v), Balanced
               PROVE  Balanced'
    OBVIOUS
  <2>1. tree \in Even
    BY DEF AvlInv, Balanced, Even, IsEven
  <2>2. tree' = InsertRec(tree, k, v)
    BY DEF TreeInsert
  <2>3. tree' \in Even
    BY <2>1, <2>2, InsertGrows DEF Grown
  <2>4. \A m \in Nodes(tree') : BalanceFactor(m) \in {-1, 0, 1}
    BY <2>3 DEF Even, IsEven
  <2> QED BY <2>4 DEF Balanced
<1> QED BY <1>1, AvlInvariant, PTL DEF Spec, InsertKeepsBalance

=============================================================================
