--------------------------- MODULE VersionedStore ---------------------------
(***************************************************************************)
(* What a transactional, versioned key-value store promises, without       *)
(* vectors and offsets: a working view that a transaction edits, a         *)
(* savepoint it can fall back to, and one immutable snapshot per committed *)
(* height, of which only a prefix can ever be forgotten.                   *)
(***************************************************************************)
EXTENDS Integers

CONSTANTS Paths, Values, None, MaxHeight

VARIABLES view,        \* what the running transaction sees
          savepoint,   \* what it falls back to
          height,      \* the number of committed versions
          snapshot     \* the versions that can still be read, by height

vars == <<view, savepoint, height, snapshot>>

State == [Paths -> Values \cup {None}]

Init == /\ view = [p \in Paths |-> None]
        /\ savepoint = view
        /\ height = 0
        /\ snapshot = [h \in {} |-> view]

Write(p, v) == /\ view' = [view EXCEPT ![p] = v]
               /\ UNCHANGED <<savepoint, height, snapshot>>

Save == /\ savepoint' = view
        /\ UNCHANGED <<view, height, snapshot>>

Rollback == /\ view' = savepoint
            /\ UNCHANGED <<savepoint, height, snapshot>>

Commit == /\ height < MaxHeight
          /\ height' = height + 1
          /\ snapshot' = [h \in DOMAIN snapshot \cup {height + 1} |->
                             IF h = height + 1 THEN view ELSE snapshot[h]]
          /\ savepoint' = view
          /\ UNCHANGED view

\* Forget every version up to and including height n.
Forget(n) == /\ snapshot' = [h \in {g \in DOMAIN snapshot : g > n} |-> snapshot[h]]
             /\ UNCHANGED <<view, savepoint, height>>

Next == \/ \E p \in Paths, v \in Values \cup {None} : Write(p, v)
        \/ Save
        \/ Rollback
        \/ Commit
        \/ \E n \in 1 .. height : Forget(n)

Spec == Init /\ [][Next]_vars
=============================================================================
