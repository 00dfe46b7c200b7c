------------------------------ MODULE StoreOps ------------------------------
(***************************************************************************)
(* The operations of `InMemoryStore` (store/src/impls/in_memory.rs) as     *)
(* operators on a record                                                   *)
(*                                                                         *)
(*    [store |-> [vec |-> <<State, ...>>, pruned |-> n],                   *)
(*     staged |-> State, pending |-> State]                                *)
(*                                                                         *)
(* A State is the content of one AVL tree: a function that gives every     *)
(* path its value, None where the tree has no such key.  The tree behind   *)
(* it is the subject of module AvlTree.  A mutating method of the source   *)
(* returns the new record here; the other modules hold such records in     *)
(* their variables.                                                        *)
(***************************************************************************)
EXTENDS Integers, Sequences

CONSTANT None       \* Option::None: no such entry, no such version

-----------------------------------------------------------------------------
(* types::Height: a query names Pending, Latest or a committed height.     *)

Pending == [tag |-> "Pending", h |-> 0]
Latest == [tag |-> "Latest", h |-> 0]
Stable(h) == [tag |-> "Stable", h |-> h]

\* impl From<RawHeight> for Height: 0 asks for the latest version.
HeightFrom(raw) == IF raw = 0 THEN Latest ELSE Stable(raw)

-----------------------------------------------------------------------------
(* PrunedVec: a Vec whose elements keep their index when a prefix goes.    *)

\* The vectors over S that have lost a number of elements in P.
VecOf(S, P) == [vec : Seq(S), pruned : P]

EmptyVec == [vec |-> <<>>, pruned |-> 0]

VecPush(pv, state) == [pv EXCEPT !.vec = Append(@, state)]

\* Mutant: an index below the pruned prefix reads the first element left.
VecGetSaturating(pv, index) ==
  LET i == IF index > pv.pruned THEN index - pv.pruned ELSE 0
  IN  IF i < Len(pv.vec) THEN pv.vec[i + 1] ELSE None

\* get: a 0-based index counted from the first element ever pushed.
VecGet(pv, index) ==
  IF index \in pv.pruned .. (pv.pruned + Len(pv.vec) - 1)
  THEN pv.vec[index - pv.pruned + 1]
  ELSE None

VecLast(pv) == IF pv.vec = <<>> THEN None ELSE pv.vec[Len(pv.vec)]

OriginalLength(pv) == Len(pv.vec) + pv.pruned

\* Mutant: prune drops the newest elements instead of the oldest.
VecPruneTruncates(pv, index) ==
  IF index > pv.pruned /\ index <= OriginalLength(pv)
  THEN [vec |-> SubSeq(pv.vec, 1, OriginalLength(pv) - index), pruned |-> index]
  ELSE pv

\* `drain(0..index - pruned)` panics beyond the end of the vector, before
\* anything is changed.
VecPrunePanics(pv, index) == index > OriginalLength(pv)

VecPrune(pv, index) ==
  IF index > pv.pruned /\ index <= OriginalLength(pv)
  THEN [vec |-> SubSeq(pv.vec, index - pv.pruned + 1, Len(pv.vec)),
        pruned |-> index]
  ELSE pv

-----------------------------------------------------------------------------
(* InMemoryStore                                                           *)

\* The stores over the states S that have pruned a number of versions in P.
StoreOf(S, P) == [store : VecOf(S, P), staged : S, pending : S]

\* Default: no committed version, `staged` and `pending` equal.
NewStore(genesis) ==
  [store |-> EmptyVec, staged |-> genesis, pending |-> genesis]

\* Mutant: a stable height is used as an index, without the offset of one.
GetStateOffByOne(s, height) ==
  CASE height.tag = "Pending" -> s.pending
    [] height.tag = "Latest" -> VecLast(s.store)
    [] height.tag = "Stable" -> VecGet(s.store, height.h)

GetState(s, height) ==
  CASE height.tag = "Pending" -> s.pending
    [] height.tag = "Latest" -> VecLast(s.store)
    [] height.tag = "Stable" -> IF height.h = 0 THEN None
                                ELSE VecGet(s.store, height.h - 1)

StoreGet(s, height, path) ==
  LET state == GetState(s, height)
  IN  IF state = None THEN None ELSE state[path]

StoreSet(s, path, value) == [s EXCEPT !.pending[path] = value]

StoreDelete(s, path) == [s EXCEPT !.pending[path] = None]

\* A transaction succeeded: `pending` is copied to `staged`.
StoreApply(s) == [s EXCEPT !.staged = s.pending]

\* A transaction failed: `staged` is copied to `pending`.
StoreReset(s) == [s EXCEPT !.pending = s.staged]

\* Mutant: commit does not apply what is pending.
StoreCommitStaged(s) == [s EXCEPT !.store = VecPush(@, s.staged)]

\* commit applies first, so what is pending is committed too.
StoreCommit(s) ==
  LET applied == StoreApply(s)
  IN  [applied EXCEPT !.store = VecPush(@, applied.staged)]

StorePrune(s, height) == [s EXCEPT !.store = VecPrune(@, height)]

CurrentHeight(s) == OriginalLength(s.store)

\* The vector commitment to the latest version.  The hash is taken to be
\* free of collisions, so a version stands for its own commitment; None is
\* the all-zero hash of a store without a committed version.
RootHash(s) == GetState(s, Latest)
=============================================================================
