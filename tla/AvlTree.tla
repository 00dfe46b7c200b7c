------------------------------- MODULE AvlTree -------------------------------
(***************************************************************************)
(* The Merkle AVL tree behind every store (store/src/avl/tree.rs, node.rs, *)
(* proof.rs): insertion, removal, lookup and ICS23 proofs, driven by any   *)
(* sequence of insertions and removals and compared with a plain map.      *)
(*                                                                         *)
(* A node is a record that caches its height and its two hashes like the   *)
(* struct does.  A hash is the tuple of what is hashed, so two hashes are  *)
(* equal exactly when their inputs are (SHA-256 without collisions).  For  *)
(* a leaf that is more than the code gives: local_hash hashes the bytes of *)
(* key and value one after the other without a length, so the same bytes   *)
(* with the boundary elsewhere hash alike.  What is said here of roots and *)
(* proofs is said up to that boundary.                                     *)
(***************************************************************************)
EXTENDS Integers, Sequences, FiniteSets, FiniteSetsExt

CONSTANTS
  Keys,         \* a finite set of positive integers, ordered as such
  Vals,         \* positive integers
  Removable     \* the keys that are ever removed

ASSUME KeysAssumption == IsFiniteSet(Keys) /\ Keys \subseteq Nat \ {0}
ASSUME ValsAssumption == Vals \subseteq Nat \ {0}
ASSUME RemovableAssumption == Removable \subseteq Keys

VARIABLES
  tree,         \* the AVL tree
  map           \* what it stands for: key |-> value, 0 for no such key

vars == <<tree, map>>

-----------------------------------------------------------------------------
(* node.rs *)

Nil == [key |-> 0]              \* the None of a NodeRef
IsNil(n) == n.key = 0

EmptyChild == <<>>              \* EMPTY_CHILD, 32 bytes of zeroes

LocalHash(k, v) == <<k, v>>

\* The hashes of children, and the trees, that are at most d nodes deep.
Digests[d \in Nat] ==
  IF d = 0 THEN {EmptyChild}
  ELSE {EmptyChild} \cup (Digests[d - 1] \X (Keys \X Vals) \X Digests[d - 1])

Shapes[d \in Nat] ==
  IF d = 0 THEN {Nil}
  ELSE {Nil} \cup [key : Keys, value : Vals, hash : Keys \X Vals,
                   merkle : Digests[d], height : Nat,
                   left : Shapes[d - 1], right : Shapes[d - 1]]

\* No tree is deeper: the keys on a path are distinct.
Trees == Shapes[Cardinality(Keys)]

ChildHash(n) == IF IsNil(n) THEN EmptyChild ELSE n.merkle

\* Height of a child; balance_factor counts a missing one like a leaf.
ChildHeight(n) == IF IsNil(n) THEN 0 ELSE n.height

UpdateHeight(n) ==
  IF IsNil(n.left) /\ IsNil(n.right) THEN 0
  ELSE 1 + IF ChildHeight(n.left) > ChildHeight(n.right)
           THEN ChildHeight(n.left) ELSE ChildHeight(n.right)

UpdateHashes(n) == <<ChildHash(n.left), n.hash, ChildHash(n.right)>>

Update(n) == [n EXCEPT !.merkle = UpdateHashes(n), !.height = UpdateHeight(n)]

AsNodeRef(k, v) ==
  [key |-> k, value |-> v, hash |-> LocalHash(k, v),
   merkle |-> <<EmptyChild, LocalHash(k, v), EmptyChild>>,
   height |-> 0, left |-> Nil, right |-> Nil]

\* Mutant: a new value under the old hash.
SetValueOnly(n, v) == [n EXCEPT !.value = v]

SetValue(n, v) == [n EXCEPT !.value = v, !.hash = LocalHash(n.key, v)]

BalanceFactor(n) == ChildHeight(n.left) - ChildHeight(n.right)

-----------------------------------------------------------------------------
(* tree.rs, rotations *)

\* Mutant: the rotation loses the inner grandchild.
RotateRightLoses(n) ==
  Update([n.left EXCEPT !.right = Update([n EXCEPT !.left = Nil])])

RotateRight(n) ==
  LET left == n.left
  IN  Update([left EXCEPT !.right = Update([n EXCEPT !.left = left.right])])

RotateLeft(n) ==
  LET right == n.right
  IN  Update([right EXCEPT !.left = Update([n EXCEPT !.right = right.left])])

\* Mutant: single rotations only.
BalanceNodeSingle(n) ==
  IF BalanceFactor(n) >= 2 THEN RotateRight(n)
  ELSE IF BalanceFactor(n) <= -2 THEN RotateLeft(n)
  ELSE n

BalanceNode(n) ==
  IF BalanceFactor(n) >= 2
  THEN RotateRight(IF BalanceFactor(n.left) < 1
                   THEN [n EXCEPT !.left = RotateLeft(n.left)] ELSE n)
  ELSE IF BalanceFactor(n) <= -2
  THEN RotateLeft(IF BalanceFactor(n.right) > -1
                  THEN [n EXCEPT !.right = RotateRight(n.right)] ELSE n)
  ELSE n

-----------------------------------------------------------------------------
(* tree.rs, lookup, insertion and removal *)

\* get: 0 when the key is not in the tree.
TreeGet(n, k) ==
  LET get[m \in Trees] ==
        IF IsNil(m) THEN 0
        ELSE IF m.key > k THEN get[m.left]
        ELSE IF m.key < k THEN get[m.right]
        ELSE m.value
  IN  get[n]

InsertRec(n, k, v) ==
  LET insert[m \in Trees] ==
        IF IsNil(m) THEN AsNodeRef(k, v)
        ELSE BalanceNode(Update(
               IF m.key > k THEN [m EXCEPT !.left = insert[m.left]]
               ELSE IF m.key < k THEN [m EXCEPT !.right = insert[m.right]]
               ELSE SetValue(m, v)))
  IN  insert[n]

\* remove_leftmost and remove_rightmost return the tree that is left and the
\* node they took out, which has lost its own child.
RemoveLeftmost(n) ==
  LET remove[m \in Trees \ {Nil}] ==
        IF IsNil(m.left)
        THEN [rest |-> m.right, removed |-> [m EXCEPT !.right = Nil]]
        ELSE [rest |-> BalanceNode(Update([m EXCEPT !.left = remove[m.left].rest])),
              removed |-> remove[m.left].removed]
  IN  remove[n]

RemoveRightmost(n) ==
  LET remove[m \in Trees \ {Nil}] ==
        IF IsNil(m.right)
        THEN [rest |-> m.left, removed |-> [m EXCEPT !.left = Nil]]
        ELSE [rest |-> BalanceNode(Update([m EXCEPT !.right = remove[m.right].rest])),
              removed |-> remove[m.right].removed]
  IN  remove[n]

\* remove_root: what takes the place of the root.
Substitute(n) ==
  IF IsNil(n.right) THEN n.left
  ELSE IF IsNil(n.left) THEN n.right
  ELSE IF BalanceFactor(n) <= 0
  THEN LET r == RemoveLeftmost(n.right)
       IN  [r.removed EXCEPT !.right = r.rest, !.left = n.left]
  ELSE LET r == RemoveRightmost(n.left)
       IN  [r.removed EXCEPT !.left = r.rest, !.right = n.right]

Rebalanced(n) == IF IsNil(n) THEN n ELSE BalanceNode(Update(n))

RemoveRoot(n) == Rebalanced(Substitute(n))

\* remove_rec updates and balances a node only if something was removed
\* below it; the tree is unchanged if the key is not there.
RemoveRec(n, k) ==
  LET remove[m \in Trees] ==
        IF TreeGet(m, k) = 0 THEN m
        ELSE Rebalanced(
               IF m.key > k THEN [m EXCEPT !.left = remove[m.left]]
               ELSE IF m.key < k THEN [m EXCEPT !.right = remove[m.right]]
               ELSE RemoveRoot(m))
  IN  remove[n]

GetKeysRec(n) ==
  LET keys[m \in Trees] ==
        IF IsNil(m) THEN <<>>
        ELSE keys[m.left] \o <<m.key>> \o keys[m.right]
  IN  keys[n]

-----------------------------------------------------------------------------
(* tree.rs, proofs.  An inner op surrounds the hash of a child by what is  *)
(* hashed before and after it.                                             *)

InnerOp(prefix, suffix) == [prefix |-> prefix, suffix |-> suffix]

\* Mutant: the children change sides in the proof.
GetLocalExistenceProofSwapped(n) ==
  [key |-> n.key, value |-> n.value,
   path |-> <<InnerOp(<<ChildHash(n.right)>>, <<ChildHash(n.left)>>)>>]

GetLocalExistenceProof(n) ==
  [key |-> n.key, value |-> n.value,
   path |-> <<InnerOp(<<ChildHash(n.left)>>, <<ChildHash(n.right)>>)>>]

NoProof == [key |-> 0]

PushOp(p, op) == IF p = NoProof THEN p ELSE [p EXCEPT !.path = Append(@, op)]

Exist(p) == [exist |-> TRUE, proof |-> p, left |-> NoProof, right |-> NoProof]
Nonexist(l, r) == [exist |-> FALSE, proof |-> NoProof, left |-> l, right |-> r]

\* get_proof_rec: an existence proof, or the proofs of the neighbours: the
\* last node passed on either side of the way down.
GetProofRec(k, n) ==
  LET prove[m \in Trees] ==
        IF IsNil(m) THEN Nonexist(NoProof, NoProof)
        ELSE IF m.key = k THEN Exist(GetLocalExistenceProof(m))
        ELSE LET goLeft == m.key > k
                 inner == IF goLeft
                          THEN InnerOp(<<>>, <<m.hash, ChildHash(m.right)>>)
                          ELSE InnerOp(<<ChildHash(m.left), m.hash>>, <<>>)
                 sub == IF goLeft THEN prove[m.left] ELSE prove[m.right]
                 here == GetLocalExistenceProof(m)
             IN  IF sub.exist THEN Exist(PushOp(sub.proof, inner))
                 ELSE Nonexist(IF ~goLeft /\ sub.left = NoProof THEN here
                               ELSE PushOp(sub.left, inner),
                               IF goLeft /\ sub.right = NoProof THEN here
                               ELSE PushOp(sub.right, inner))
  IN  prove[n]

\* External: what an ICS23 verifier computes from an existence proof.
CalculateRoot(p) ==
  LET root[i \in 0 .. Len(p.path)] ==
        IF i = 0 THEN LocalHash(p.key, p.value)
        ELSE p.path[i].prefix \o <<root[i - 1]>> \o p.path[i].suffix
  IN  root[Len(p.path)]

-----------------------------------------------------------------------------
Init == tree = Nil /\ map = [k \in Keys |-> 0]

TreeInsert(k, v) == /\ tree' = InsertRec(tree, k, v)
                    /\ map' = [map EXCEPT ![k] = v]

TreeRemove(k) == /\ tree' = RemoveRec(tree, k)
                 /\ map' = [map EXCEPT ![k] = 0]

Next == \/ \E k \in Keys, v \in Vals : TreeInsert(k, v)
        \/ \E k \in Removable : TreeRemove(k)

Spec == Init /\ [][Next]_vars

-----------------------------------------------------------------------------
Nodes(n) ==
  LET nodes[m \in Trees] ==
        IF IsNil(m) THEN {} ELSE {m} \cup nodes[m.left] \cup nodes[m.right]
  IN  nodes[n]

Present == {k \in Keys : map[k] # 0}

\* The tree behaves as a map whatever was inserted, overwritten and removed,
\* through every rotation: get finds each key's value, and get_keys lists the
\* keys once, in order (get_keys of the store relies on that order).
IsMap == /\ \A k \in Keys : TreeGet(tree, k) = map[k]
         /\ LET keys == GetKeysRec(tree)
            IN  /\ {keys[i] : i \in DOMAIN keys} = Present
                /\ \A i, j \in DOMAIN keys : i < j => keys[i] < keys[j]

\* The height and the hashes cached in a node are those of its present
\* children and value: no path through insertion, removal or rotation forgets
\* an update, so the root hash commits to the whole content.
CachesFresh ==
  \A n \in Nodes(tree) : /\ n.height = UpdateHeight(n)
                         /\ n.hash = LocalHash(n.key, n.value)
                         /\ n.merkle = UpdateHashes(n)

\* Every proof verifies against the root hash: of a present key its value, of
\* an absent key its closest neighbours, both if both exist.
ProofsVerify ==
  \A k \in Keys :
    LET p == GetProofRec(k, tree)
        lower == {j \in Present : j < k}
        upper == {j \in Present : j > k}
        Verifies(q) == /\ q.value = map[q.key]
                       /\ CalculateRoot(q) = tree.merkle
    IN  IF k \in Present
        THEN p.exist /\ p.proof.key = k /\ Verifies(p.proof)
        ELSE /\ ~p.exist
             /\ p.left.key = IF lower = {} THEN 0 ELSE Max(lower)
             /\ p.right.key = IF upper = {} THEN 0 ELSE Min(upper)
             /\ p.left # NoProof => Verifies(p.left)
             /\ p.right # NoProof => Verifies(p.right)

\* "AvlTree must stay balanced", "balance factors are in {-1, 0, 1}"
\* (avl/tests.rs), by the measure of balance_factor.
Balanced == \A n \in Nodes(tree) : BalanceFactor(n) \in {-1, 0, 1}

\* An insertion keeps a balanced tree balanced, whatever insertions and
\* removals have shaped it: one rotation on the way up is enough.
InsertKeepsBalance ==
  [][\A k \in Keys, v \in Vals : TreeInsert(k, v) /\ Balanced => Balanced']_vars
=============================================================================
