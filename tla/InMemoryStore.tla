---------------------------- MODULE InMemoryStore ----------------------------
(***************************************************************************)
(* One `InMemoryStore` driven by any sequence of calls of its Store trait. *)
(* Every method takes `&mut self` or runs behind the RwLock of a           *)
(* SharedStore, so each call is one atomic action.                         *)
(***************************************************************************)
EXTENDS StoreOps

CONSTANTS Paths, Values,
          MaxHeight     \* bound: the number of versions ever committed

ASSUME StoreAssumption == /\ None \notin Values
                          /\ None \notin [Paths -> Values \cup {None}]
                          /\ MaxHeight \in Nat

VARIABLE db

State == [Paths -> Values \cup {None}]

EmptyState == [p \in Paths |-> None]

Init == db = NewStore(EmptyState)

Set(p, v) == db' = StoreSet(db, p, v)

Delete(p) == db' = StoreDelete(db, p)

Apply == db' = StoreApply(db)

Reset == db' = StoreReset(db)

Commit == /\ CurrentHeight(db) < MaxHeight
          /\ db' = StoreCommit(db)

\* A prune beyond the last version panics behind the lock of the store, which
\* is poisoned from then on: no call follows it, and it has no step here.
Prune(h) == /\ ~VecPrunePanics(db.store, h)
            /\ db' = StorePrune(db, h)

Next == \/ \E p \in Paths, v \in Values : Set(p, v)
        \/ \E p \in Paths : Delete(p)
        \/ Apply
        \/ Reset
        \/ Commit
        \/ \E h \in 0 .. MaxHeight : Prune(h)

Spec == Init /\ [][Next]_db

-----------------------------------------------------------------------------
\* Type invariant: the three parts of the store have the shape of the struct.
TypeOK == db \in StoreOf(State, Nat)

Readable(h) == GetState(db, Stable(h)) # None

\* A height that was read once reads the same until it is pruned, whatever is
\* set, applied, reset, committed or pruned in between, and a pruned height
\* never comes back (get_state's index arithmetic against `pruned`).
SnapshotsAreFinal ==
  [][\A h \in 0 .. MaxHeight :
       h <= CurrentHeight(db) =>
         GetState(db, Stable(h))' \in {GetState(db, Stable(h)), None}]_db

\* Latest and the height `current_height` reports name the same version,
\* also after pruning: the heights an RPC client combines stay aligned.
LatestIsCurrent == GetState(db, Latest) = GetState(db, Stable(CurrentHeight(db)))

\* The versions that can be read are an unbroken run that ends at the
\* current height: pruning leaves no hole and no height beyond the last.
NoHoles == \A h \in 0 .. MaxHeight + 1 :
             Readable(h) <=> h \in (db.store.pruned + 1) .. CurrentHeight(db)

-----------------------------------------------------------------------------
\* The store implements the abstract versioned store: heights of the
\* abstraction are absolute, indices of the vector start after the pruned
\* prefix.
Abs == INSTANCE VersionedStore WITH
         view <- db.pending,
         savepoint <- db.staged,
         height <- CurrentHeight(db),
         snapshot <- [h \in (db.store.pruned + 1) .. CurrentHeight(db) |->
                        db.store.vec[h - db.store.pruned]]

\* Refinement: every call maps to one step of the versioned store or to none.
ImplementsVersionedStore == Abs!Spec
=============================================================================
