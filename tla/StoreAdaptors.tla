---------------------------- MODULE StoreAdaptors ----------------------------
(***************************************************************************)
(* The stores of the crate behind the one trait `Store`: an InMemoryStore, *)
(* alone or under the deprecated adaptors GrowingStore (growing.rs, which  *)
(* deletes by writing an empty vector) and RevertibleStore (revertible.rs, *)
(* which takes back what an operation log lists).  With both, the growing  *)
(* store is the one below: RevertibleStore<GrowingStore<InMemoryStore>>.   *)
(*                                                                         *)
(* `db` is the InMemoryStore at the bottom of the stack.                   *)
(***************************************************************************)
EXTENDS InMemoryStore, SequencesExt

CONSTANTS Empty,        \* the vector of no bytes
          MaxLog,       \* bound: operations between two calls of apply
          MaxLogged     \* bound: versions committed through a RevertibleStore

ASSUME AdaptorAssumption ==
  Empty \in Values /\ MaxLog \in Nat /\ MaxLogged \in Nat

VARIABLES
  growing,      \* there is a GrowingStore in the stack
  revertible,   \* there is a RevertibleStore on top of it
  log,          \* its op_log
  mode,         \* "reset" while the loop of its `reset` runs
  saved,        \* what was visible when the log was cleared last
  deleted       \* a `delete` has been called since

stack == <<growing, revertible>>
logged == <<log, mode, saved, deleted>>
vars == <<db, stack, logged>>

-----------------------------------------------------------------------------
(* GrowingStore                                                            *)

\* Mutant: get does not filter the empty vector.
SeenUnfiltered(v) == v

\* get: a deleted path holds the empty vector and reads as missing.
Seen(v) == IF growing /\ v = Empty THEN None ELSE v

View(state) == [p \in Paths |-> Seen(state[p])]

\* set panics on an empty value, before anything is stored.
BackingSet(p, v) == (growing => v # Empty) /\ Set(p, v)

BackingDelete(p) == IF growing THEN Set(p, Empty) ELSE Delete(p)

-----------------------------------------------------------------------------
(* RevertibleStore                                                         *)

\* Mutant: the old value is not kept.
RevertOpForgets(p) == [path |-> p, old |-> None]

\* The operation that takes a set back.  The value that `set` of the backing
\* store returns is the stored one: a path that a GrowingStore has deleted
\* comes back as Some(empty).  None stands for RevertOp::Delete.
RevertOp(p) == [path |-> p, old |-> db.pending[p]]

\* What is visible after the operations of a log, the last one first.
Undo(ops, state) ==
  FoldRight(LAMBDA op, s : [s EXCEPT ![op.path] = Seen(op.old)], ops, state)

-----------------------------------------------------------------------------
AdaptorInit ==
  /\ Init
  /\ growing \in BOOLEAN
  /\ revertible \in BOOLEAN
  /\ log = <<>>
  /\ mode = "idle"
  /\ saved = EmptyState
  /\ deleted = FALSE

\* Without a RevertibleStore every call is forwarded; delete is translated.
Forwarded ==
  /\ ~revertible
  /\ \/ \E p \in Paths, v \in Values : BackingSet(p, v)
     \/ \E p \in Paths : BackingDelete(p)
     \/ Apply
     \/ Reset
     \/ Commit
     \/ \E h \in 0 .. MaxHeight : Prune(h)
  /\ UNCHANGED <<stack, logged>>

\* RevertibleStore has no `prune`: that of the trait does nothing.
Idle == revertible /\ mode = "idle" /\ UNCHANGED stack

LoggedSet(p, v) ==
  /\ Idle
  /\ Len(log) < MaxLog
  /\ BackingSet(p, v)
  /\ log' = Append(log, RevertOp(p))
  /\ UNCHANGED <<mode, saved, deleted>>

\* delete is forwarded and leaves nothing in the log.
UnloggedDelete(p) ==
  /\ Idle
  /\ BackingDelete(p)
  /\ deleted' = TRUE
  /\ UNCHANGED <<log, mode, saved>>

ClearLog ==
  /\ log' = <<>>
  /\ saved' = View(db.pending)
  /\ deleted' = FALSE
  /\ UNCHANGED mode

\* apply is not forwarded, commit is, and applies there.
LoggedApply == Idle /\ ClearLog /\ UNCHANGED db

LoggedCommit == Idle /\ CurrentHeight(db) < MaxLogged /\ ClearLog /\ Commit

StartReset ==
  /\ Idle
  /\ mode' = "reset"
  /\ UNCHANGED <<db, log, saved, deleted>>

\* Mutant: the operation stays in the log.
ResetOpKept ==
  /\ mode = "reset" /\ log # <<>>
  /\ Last(log).old = None
  /\ BackingDelete(Last(log).path)
  /\ UNCHANGED <<stack, log, mode, saved, deleted>>

\* One round of the loop of reset: a set is taken back by a delete, ...
ResetOp ==
  /\ mode = "reset" /\ log # <<>>
  /\ Last(log).old = None
  /\ BackingDelete(Last(log).path)
  /\ log' = Front(log)
  /\ UNCHANGED <<stack, mode, saved, deleted>>

\* ... or by `self.set`, which logs an operation of its own.
ResetSet ==
  /\ mode = "reset" /\ log # <<>>
  /\ Last(log).old # None
  /\ BackingSet(Last(log).path, Last(log).old)
  /\ log' = Append(Front(log), RevertOp(Last(log).path))
  /\ UNCHANGED <<stack, mode, saved, deleted>>

\* The old value is the empty vector of a deleted path, which GrowingStore
\* does not accept.
ResetPanics ==
  /\ mode = "reset" /\ log # <<>>
  /\ growing /\ Last(log).old = Empty
  /\ mode' = "panicked"
  /\ log' = Front(log)
  /\ UNCHANGED <<db, stack, saved, deleted>>

ResetEnd ==
  /\ mode = "reset" /\ log = <<>>
  /\ mode' = "idle"
  /\ UNCHANGED <<db, stack, log, saved, deleted>>

ResetLoop == ResetOp \/ ResetSet \/ ResetPanics \/ ResetEnd

AdaptorNext ==
  \/ Forwarded
  \/ \E p \in Paths, v \in Values : LoggedSet(p, v)
  \/ \E p \in Paths : UnloggedDelete(p)
  \/ LoggedApply
  \/ LoggedCommit
  \/ StartReset
  \/ ResetLoop

\* A reset that was entered goes on: it is a loop without waits.
AdaptorSpec == AdaptorInit /\ [][AdaptorNext]_vars /\ WF_vars(ResetLoop)

-----------------------------------------------------------------------------
\* A GrowingStore implements the abstract store over the values that are not
\* empty: no snapshot, no rollback and no overwriting ever shows that deleted
\* paths are still there, with an empty value.
Grown == growing /\ ~revertible

ShownView == IF Grown THEN View(db.pending) ELSE EmptyState
ShownSavepoint == IF Grown THEN View(db.staged) ELSE EmptyState
ShownHeight == IF Grown THEN CurrentHeight(db) ELSE 0
ShownSnapshot ==
  [h \in (IF Grown THEN (db.store.pruned + 1) .. CurrentHeight(db) ELSE {}) |->
     View(db.store.vec[h - db.store.pruned])]

Shown == INSTANCE VersionedStore WITH
  Values <- Values \ {Empty},
  view <- ShownView,
  savepoint <- ShownSavepoint,
  height <- ShownHeight,
  snapshot <- ShownSnapshot

GrowingImplementsVersionedStore == Shown!Spec

\* The log of a RevertibleStore leads from what is visible to what was visible
\* when it was cleared, unless something was deleted in between: this is all
\* that a reset has to go by.
LogUndoes ==
  revertible /\ mode = "idle" /\ ~deleted => Undo(log, View(db.pending)) = saved

Inserts == \A i \in DOMAIN log : log[i].old = None

\* A reset that has only insertions to take back ends, and has taken back all
\* of them.  (One that finds an overwritten value logs what it does and never
\* ends, see the FIXME in revertible.rs.)
ResetEnds ==
  mode = "reset" /\ Inserts ~>
    mode = "idle" /\ (deleted \/ View(db.pending) = saved)
=============================================================================
