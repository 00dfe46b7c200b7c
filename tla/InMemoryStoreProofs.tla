------------------------- MODULE InMemoryStoreProofs -------------------------
(***************************************************************************)
(* Proofs about module InMemoryStore, and about the adaptors over it in    *)
(* module StoreAdaptors, for every set of paths and values, every length   *)
(* of the operation log and every bound on the height.                     *)
(***************************************************************************)
EXTENDS StoreAdaptors, SharedLemmas

\* No state is the answer None of get_state.
LEMMA StateFacts ==
  /\ None \notin State
  /\ EmptyState \in State
  /\ MaxHeight \in Nat
  BY StoreAssumption DEF State, EmptyState

\* A new store has the type and no committed version.
LEMMA InitTyped == Init => TypeOK
<1> SUFFICES ASSUME Init PROVE TypeOK
  OBVIOUS
<1>1. <<>> \in Seq(State) /\ 0 \in Nat
  OBVIOUS
<1>2. EmptyVec \in VecOf(State, Nat)
  BY <1>1 DEF EmptyVec, VecOf
<1> QED BY <1>2, StateFacts DEF Init, TypeOK, NewStore, StoreOf

\* Every call keeps the type of the store.
LEMMA StepTyped == TypeOK /\ [Next]_db => TypeOK'
<1> SUFFICES ASSUME TypeOK, [Next]_db PROVE TypeOK'
  OBVIOUS
<1>1. /\ db \in StoreOf(State, Nat)
      /\ db \in StoreOf([Paths -> Values \cup {None}], Nat)
  BY DEF TypeOK, State
<1>2. ASSUME NEW p \in Paths, NEW v \in Values, Set(p, v) PROVE TypeOK'
  <2>1. v \in Values \cup {None} /\ None \in Values \cup {None}
    OBVIOUS
  <2> QED BY <1>1, <1>2, <2>1, WriteLemma DEF Set, TypeOK, State
<1>3. ASSUME NEW p \in Paths, Delete(p) PROVE TypeOK'
  <2>1. None \in Values \cup {None}
    OBVIOUS
  <2> QED BY <1>1, <1>3, <2>1, WriteLemma DEF Delete, TypeOK, State
<1>4. CASE Apply
  BY <1>1, <1>4, SettleLemma DEF Apply, TypeOK
<1>5. CASE Reset
  BY <1>1, <1>5, SettleLemma DEF Reset, TypeOK
<1>6. CASE Commit
  <2>1. Nat \in SUBSET Nat
    OBVIOUS
  <2> QED BY <1>1, <1>6, <2>1, CommitLemma DEF Commit, TypeOK
<1>7. ASSUME NEW h \in 0 .. MaxHeight, Prune(h) PROVE TypeOK'
  <2>1. h \in Nat
    BY StateFacts
  <2> QED BY <1>1, <1>7, <2>1, PruneLemma, StateFacts DEF Prune, TypeOK
<1>8. CASE UNCHANGED db
  BY <1>8 DEF TypeOK
<1> QED BY <1>2, <1>3, <1>4, <1>5, <1>6, <1>7, <1>8 DEF Next

\* The store keeps the shape of its struct under every sequence of calls.
THEOREM TypeCorrect == Spec => []TypeOK
  BY InitTyped, StepTyped, PTL DEF Spec

\* The readable versions are an unbroken run that ends at the current height.
THEOREM VersionsHaveNoHoles == Spec => []NoHoles
<1>1. TypeOK => NoHoles
  <2> SUFFICES ASSUME TypeOK, NEW h \in 0 .. MaxHeight + 1
               PROVE  Readable(h) <=> h \in (db.store.pruned + 1) .. CurrentHeight(db)
    BY DEF NoHoles
  <2>1. h \in Nat /\ Nat \in SUBSET Nat
    BY StateFacts
  <2>2. db \in StoreOf(State, Nat)
    BY DEF TypeOK
  <2> QED BY <2>1, <2>2, ReadLemma, StateFacts DEF Readable
<1> QED BY <1>1, TypeCorrect, PTL

\* Latest and Stable(current_height) read the same version.
THEOREM LatestReadsCurrent == Spec => []LatestIsCurrent
<1>1. TypeOK => LatestIsCurrent
  <2> SUFFICES ASSUME TypeOK PROVE LatestIsCurrent
    OBVIOUS
  <2>1. /\ db.store.vec \in Seq(State)
        /\ db.store.pruned \in Nat
        /\ Len(db.store.vec) \in Nat
        /\ CurrentHeight(db) = Len(db.store.vec) + db.store.pruned
    BY DEF TypeOK, StoreOf, VecOf, CurrentHeight, OriginalLength
  <2>2. GetState(db, Latest) = VecLast(db.store)
    BY DEF GetState, Latest
  <2>3. GetState(db, Stable(CurrentHeight(db))) =
          IF CurrentHeight(db) = 0 THEN None
          ELSE VecGet(db.store, CurrentHeight(db) - 1)
    BY DEF GetState, Stable
  <2>4. CASE db.store.vec = <<>>
    <3>1. Len(db.store.vec) = 0
      BY <2>4
    <3>2. CurrentHeight(db) # 0 => VecGet(db.store, CurrentHeight(db) - 1) = None
      BY <2>1, <3>1 DEF VecGet
    <3> QED BY <2>2, <2>3, <2>4, <3>2 DEF LatestIsCurrent, VecLast
  <2>5. CASE db.store.vec # <<>>
    <3>1. Len(db.store.vec) > 0
      BY <2>1, <2>5
    <3>2. /\ CurrentHeight(db) # 0
          /\ CurrentHeight(db) - 1 \in db.store.pruned ..
                                         (db.store.pruned + Len(db.store.vec) - 1)
          /\ (CurrentHeight(db) - 1) - db.store.pruned + 1 = Len(db.store.vec)
      BY <2>1, <3>1
    <3>3. VecGet(db.store, CurrentHeight(db) - 1) = db.store.vec[Len(db.store.vec)]
      BY <3>2 DEF VecGet
    <3> QED BY <2>2, <2>3, <2>5, <3>2, <3>3 DEF LatestIsCurrent, VecLast
  <2> QED BY <2>4, <2>5
<1> QED BY <1>1, TypeCorrect, PTL

\* A committed version never changes before it is pruned, and never returns.
THEOREM CommittedVersionsAreFinal == Spec => SnapshotsAreFinal
<1>1. TypeOK /\ [Next]_db =>
        [\A h \in 0 .. MaxHeight :
           h <= CurrentHeight(db) =>
             GetState(db, Stable(h))' \in {GetState(db, Stable(h)), None}]_db
  <2> SUFFICES ASSUME TypeOK, Next, NEW h \in 0 .. MaxHeight, h <= CurrentHeight(db)
               PROVE  GetState(db', Stable(h)) \in {GetState(db, Stable(h)), None}
    OBVIOUS
  <2>1. /\ db \in StoreOf(State, Nat)
        /\ db \in StoreOf([Paths -> Values \cup {None}], Nat)
        /\ h \in Nat
        /\ Nat \in SUBSET Nat
        /\ None \in Values \cup {None}
    BY StateFacts DEF TypeOK, State
  <2>2. ASSUME db'.store = db.store
        PROVE  GetState(db', Stable(h)) = GetState(db, Stable(h))
    BY <2>2 DEF GetState, Stable
  <2>3. ASSUME NEW p \in Paths, NEW v \in Values, Set(p, v)
        PROVE  db'.store = db.store
    <3>1. v \in Values \cup {None}
      OBVIOUS
    <3> QED BY <2>1, <2>3, <3>1 DEF Set, StoreSet, StoreOf
  <2>4. ASSUME NEW p \in Paths, Delete(p) PROVE db'.store = db.store
    BY <2>1, <2>4 DEF Delete, StoreDelete, StoreOf
  <2>5. ASSUME Apply \/ Reset PROVE db'.store = db.store
    BY <2>1, <2>5, SettleLemma DEF Apply, Reset
  <2>6. CASE Commit
    <3>1. /\ CurrentHeight(db) \in Nat
          /\ GetState(StoreCommit(db), Stable(h)) =
               IF h = CurrentHeight(db) + 1 THEN db.pending ELSE GetState(db, Stable(h))
      BY <2>1, CommitLemma
    <3>2. h # CurrentHeight(db) + 1
      BY <2>1, <3>1
    <3> QED BY <2>6, <3>1, <3>2 DEF Commit
  <2>7. ASSUME NEW n \in 0 .. MaxHeight, Prune(n)
        PROVE  GetState(db', Stable(h)) \in {GetState(db, Stable(h)), None}
    <3>1. n \in Nat
      BY StateFacts
    <3> QED BY <2>1, <2>7, <3>1, PruneLemma, StateFacts DEF Prune
  <2> QED BY <2>2, <2>3, <2>4, <2>5, <2>6, <2>7 DEF Next
<1> QED BY <1>1, TypeCorrect, PTL DEF Spec, SnapshotsAreFinal

-----------------------------------------------------------------------------
(* The refinement.  Versions(s) is the value of the abstract `snapshot`.   *)

Versions(s) == [h \in (s.store.pruned + 1) .. CurrentHeight(s) |->
                  s.store.vec[h - s.store.pruned]]

\* commit adds the pending state to the versions, at the height after the last.
LEMMA CommitVersions ==
  ASSUME NEW s \in StoreOf(State, Nat)
  PROVE  Versions(StoreCommit(s)) =
           [h \in DOMAIN Versions(s) \cup {CurrentHeight(s) + 1} |->
              IF h = CurrentHeight(s) + 1 THEN s.pending ELSE Versions(s)[h]]
<1> DEFINE c == StoreCommit(s)
           H == CurrentHeight(s)
           P == s.store.pruned
           V == s.store.vec
<1>1. /\ V \in Seq(State) /\ P \in Nat /\ Len(V) \in Nat /\ H = Len(V) + P
      /\ s.pending \in State
  BY DEF StoreOf, VecOf, CurrentHeight, OriginalLength
<1>2. c.store.vec = Append(V, s.pending) /\ c.store.pruned = P
  BY DEF StoreCommit, StoreApply, VecPush, StoreOf, VecOf
<1>3. CurrentHeight(c) = H + 1
  <2>1. Nat \in SUBSET Nat
    OBVIOUS
  <2> QED BY <2>1, CommitLemma
<1>4. DOMAIN Versions(s) = (P + 1) .. H
  BY DEF Versions
<1>5. (P + 1) .. (H + 1) = ((P + 1) .. H) \cup {H + 1}
  <2>1. P \in Nat /\ H \in Nat /\ P <= H
    BY <1>1
  <2> HIDE DEF H, P
  <2> QED BY <2>1
<1>6. ASSUME NEW h \in (P + 1) .. (H + 1)
      PROVE  c.store.vec[h - P] = IF h = H + 1 THEN s.pending ELSE Versions(s)[h]
  <2>1. CASE h = H + 1
    BY <1>1, <1>2, <2>1
  <2>2. CASE h # H + 1
    <3>1. h \in (P + 1) .. H /\ h - P \in 1 .. Len(V)
      <4> HIDE DEF H, P, V
      <4> QED BY <1>1, <2>2
    <3>2. Append(V, s.pending)[h - P] = V[h - P]
      BY <1>1, <3>1
    <3> QED BY <1>2, <2>2, <3>1, <3>2 DEF Versions
  <2> QED BY <2>1, <2>2
<1>7. Versions(c) = [h \in (P + 1) .. (H + 1) |-> c.store.vec[h - P]]
  BY <1>2, <1>3 DEF Versions
<1> HIDE DEF c, H, P
<1> QED BY <1>4, <1>5, <1>6, <1>7 DEF c, H

\* prune within the committed heights removes the versions up to the height.
LEMMA PruneVersions ==
  ASSUME NEW s \in StoreOf(State, Nat), NEW n \in Nat,
         n > s.store.pruned, n <= CurrentHeight(s)
  PROVE  Versions(StorePrune(s, n)) =
           [h \in {g \in DOMAIN Versions(s) : g > n} |-> Versions(s)[h]]
<1> DEFINE q == StorePrune(s, n)
           H == CurrentHeight(s)
           P == s.store.pruned
           V == s.store.vec
           a == n - P + 1
<1>1. /\ V \in Seq(State) /\ P \in Nat /\ Len(V) \in Nat /\ H = Len(V) + P
      /\ n > P /\ n <= H /\ a \in Int
  BY DEF StoreOf, VecOf, CurrentHeight, OriginalLength
<1>2. q.store.vec = SubSeq(V, a, Len(V)) /\ q.store.pruned = n
  BY <1>1 DEF StorePrune, VecPrune, StoreOf, VecOf, CurrentHeight, OriginalLength
<1>3. /\ Len(SubSeq(V, a, Len(V))) = H - n
      /\ \A i \in 1 .. (H - n) : SubSeq(V, a, Len(V))[i] = V[a + i - 1]
  <2>1. \A i \in a .. Len(V) : V[i] \in State
    BY <1>1
  <2>2. (IF a <= Len(V) THEN Len(V) - a + 1 ELSE 0) = H - n /\ Len(V) - a + 1 = H - n
    <3> DEFINE L == Len(V)
    <3>1. P \in Nat /\ L \in Nat /\ H = L + P /\ n > P /\ n <= H /\ a = n - P + 1
      BY <1>1
    <3> HIDE DEF H, P, V, a, L
    <3>2. (IF a <= L THEN L - a + 1 ELSE 0) = H - n /\ L - a + 1 = H - n
      BY <3>1
    <3> QED BY <3>2 DEF L
  <2> HIDE DEF a
  <2> QED BY <1>1, <2>1, <2>2, SubSeqProperties
<1>4. CurrentHeight(q) = H
  BY PruneLemma, StateFacts
<1>5. DOMAIN Versions(s) = (P + 1) .. H
  BY DEF Versions
<1>6. (n + 1) .. H = {g \in (P + 1) .. H : g > n}
  BY <1>1
<1>7. ASSUME NEW h \in (n + 1) .. H
      PROVE  q.store.vec[h - n] = Versions(s)[h]
  <2>1. h - n \in 1 .. (H - n) /\ a + (h - n) - 1 = h - P /\ h \in (P + 1) .. H
    <3>1. P \in Nat /\ H \in Nat /\ n > P /\ n <= H /\ a = n - P + 1
      BY <1>1
    <3> HIDE DEF H, P, V, a
    <3> QED BY <3>1
  <2> QED BY <1>2, <1>3, <2>1 DEF Versions
<1>8. Versions(q) = [h \in (n + 1) .. H |-> q.store.vec[h - n]]
  BY <1>2, <1>4 DEF Versions
<1> HIDE DEF q, H, P, V
<1> QED BY <1>5, <1>6, <1>7, <1>8 DEF q

\* Each call is one step of the abstract store, or none.
LEMMA StoreStep == TypeOK /\ [Next]_db => [Abs!Next]_(Abs!vars)
<1> SUFFICES ASSUME TypeOK, [Next]_db PROVE [Abs!Next]_(Abs!vars)
  OBVIOUS
<1>1. /\ db \in StoreOf(State, Nat)
      /\ db \in StoreOf([Paths -> Values \cup {None}], Nat)
  BY DEF TypeOK, State
<1>2. ASSUME db'.store = db.store
      PROVE  CurrentHeight(db') = CurrentHeight(db) /\ Versions(db') = Versions(db)
  BY <1>2 DEF CurrentHeight, Versions
<1>3. ASSUME NEW p \in Paths, NEW v \in Values \cup {None},
             db' = StoreSet(db, p, v)
      PROVE  Abs!Next
  <2>1. /\ db'.store = db.store /\ db'.staged = db.staged
        /\ db'.pending = [db.pending EXCEPT ![p] = v]
    BY <1>1, <1>3 DEF StoreSet, StoreOf
  <2>2. Abs!Write(p, v)
    BY <1>2, <2>1 DEF Abs!Write, Versions
  <2> QED BY <2>2 DEF Abs!Next
<1>4. ASSUME NEW p \in Paths, Delete(p) PROVE Abs!Next
  <2>1. db' = StoreSet(db, p, None)
    BY <1>4 DEF Delete, StoreDelete, StoreSet
  <2> QED BY <1>3, <2>1
<1>5. CASE Apply
  <2>1. /\ db'.store = db.store /\ db'.staged = db.pending
        /\ db'.pending = db.pending
    BY <1>1, <1>5, SettleLemma DEF Apply
  <2> QED BY <1>2, <2>1 DEF Abs!Next, Abs!Save, Versions
<1>6. CASE Reset
  <2>1. /\ db'.store = db.store /\ db'.staged = db.staged
        /\ db'.pending = db.staged
    BY <1>1, <1>6, SettleLemma DEF Reset
  <2> QED BY <1>2, <2>1 DEF Abs!Next, Abs!Rollback, Versions
<1>7. CASE Commit
  <2>1. Nat \in SUBSET Nat
    OBVIOUS
  <2>2. /\ CurrentHeight(db') = CurrentHeight(db) + 1
        /\ db'.staged = db.pending /\ db'.pending = db.pending
        /\ CurrentHeight(db) < MaxHeight
    BY <1>1, <1>7, <2>1, CommitLemma DEF Commit
  <2>3. Versions(db') = [h \in DOMAIN Versions(db) \cup {CurrentHeight(db) + 1} |->
            IF h = CurrentHeight(db) + 1 THEN db.pending ELSE Versions(db)[h]]
    BY <1>1, <1>7, CommitVersions DEF Commit
  <2> QED BY <2>2, <2>3 DEF Abs!Next, Abs!Commit, Versions
<1>8. ASSUME NEW n \in 0 .. MaxHeight, Prune(n) PROVE [Abs!Next]_(Abs!vars)
  <2>1. n \in Nat /\ db.store.pruned \in Nat
    BY <1>1, StateFacts DEF StoreOf, VecOf
  <2>2. CASE n > db.store.pruned /\ n <= CurrentHeight(db)
    <3>1. Versions(db') = [h \in {g \in DOMAIN Versions(db) : g > n} |-> Versions(db)[h]]
      BY <1>1, <1>8, <2>1, <2>2, PruneVersions DEF Prune
    <3>2. /\ CurrentHeight(db') = CurrentHeight(db) /\ CurrentHeight(db) \in Nat
          /\ db'.staged = db.staged /\ db'.pending = db.pending
      <4>1. Nat \in SUBSET Nat
        OBVIOUS
      <4> QED BY <1>1, <1>8, <2>1, <4>1, PruneLemma, ReadLemma, StateFacts DEF Prune
    <3>3. n \in 1 .. CurrentHeight(db)
      BY <2>1, <2>2, <3>2
    <3>4. Abs!Forget(n)
      BY <3>1, <3>2 DEF Abs!Forget, Versions
    <3> QED BY <3>3, <3>4 DEF Abs!Next
  <2>3. CASE ~(n > db.store.pruned /\ n <= CurrentHeight(db))
    <3>1. db' = db
      BY <1>1, <1>8, <2>3 DEF Prune, StorePrune, VecPrune, StoreOf, CurrentHeight
    <3> QED BY <3>1 DEF Abs!vars, CurrentHeight
  <2> QED BY <2>2, <2>3
<1>9. CASE UNCHANGED db
  BY <1>9 DEF Abs!vars, CurrentHeight
<1> QED BY <1>3, <1>4, <1>5, <1>6, <1>7, <1>8, <1>9 DEF Next, Set

\* InMemoryStore implements VersionedStore: each call is one abstract step.
THEOREM StoreRefinesVersionedStore == Spec => ImplementsVersionedStore
<1>1. Init => Abs!Init
  <2> SUFFICES ASSUME Init PROVE Abs!Init
    OBVIOUS
  <2>1. /\ db.pending = EmptyState /\ db.staged = EmptyState
        /\ db.store.vec = <<>> /\ db.store.pruned = 0
    BY DEF Init, NewStore, EmptyVec
  <2>2. CurrentHeight(db) = 0
    BY <2>1 DEF CurrentHeight, OriginalLength
  <2>3. (db.store.pruned + 1) .. CurrentHeight(db) = {}
    BY <2>1, <2>2
  <2>4. [h \in (db.store.pruned + 1) .. CurrentHeight(db) |->
           db.store.vec[h - db.store.pruned]] = [h \in {} |-> db.pending]
    BY <2>3
  <2> QED BY <2>1, <2>2, <2>4 DEF Abs!Init, EmptyState
<1> QED BY <1>1, StoreStep, TypeCorrect, PTL
       DEF Spec, ImplementsVersionedStore, Abs!Spec

-----------------------------------------------------------------------------
(* The adaptors.  First, what taking back an operation log amounts to: the *)
(* fold of the community modules is unrolled by induction on its sets.     *)

Ops == [path : Paths, old : Values \cup {None}]

\* One round of taking back: the operation op on what is visible.
TakenBack(op, st) == [st EXCEPT ![op.path] = Seen(op.old)]

\* What is visible after the operations at the places in S, given the results
\* g for fewer of them.
UndoStep(ops, st, g, S) ==
  IF S = {} THEN st ELSE TakenBack(ops[Min(S)], g[S \ {Min(S)}])

Undoes(ops, st, D, g) == g = [S \in D |-> UndoStep(ops, st, g, S)]

\* The definition of a fold in the community modules, in these terms.
LEMMA UndoUnfolds ==
  ASSUME NEW ops, NEW st
  PROVE  Undo(ops, st) =
           (CHOOSE g : Undoes(ops, st, SUBSET (DOMAIN ops), g))[DOMAIN ops]
  BY DEF Undo, FoldRight, MapThenFoldSet, Undoes, UndoStep, TakenBack

\* The fold exists, since the sets get smaller.
LEMMA UndoExists ==
  ASSUME NEW ops, NEW st, NEW n \in Nat
  PROVE  \E g : Undoes(ops, st, SUBSET (1 .. n), g)
<1> DEFINE S == 1 .. n
           P == {k \in Nat : \E g : Undoes(ops, st, Sized(S, k), g)}
<1>1. IsFiniteSet(S) /\ \A T \in SUBSET S : T \in SUBSET Nat
  BY FS_Interval
<1> HIDE DEF S
<1>2. \A T \in SUBSET S : IsFiniteSet(T) /\ Cardinality(T) \in Nat
  BY <1>1, FS_Subset, FS_CardinalityType
<1>3. 0 \in P
  <2> DEFINE g == [T \in Sized(S, 0) |-> st]
  <2>1. \A T \in Sized(S, 0) : T = {}
    BY <1>2, FS_EmptySet DEF Sized
  <2>2. g = [T \in Sized(S, 0) |-> UndoStep(ops, st, g, T)]
    BY <2>1 DEF UndoStep
  <2>3. Undoes(ops, st, Sized(S, 0), g)
    BY <2>2 DEF Undoes
  <2> QED BY <2>3
<1>4. ASSUME NEW k \in Nat, k \in P PROVE k + 1 \in P
  <2>1. PICK g : Undoes(ops, st, Sized(S, k), g)
    BY <1>4
  <2> DEFINE h == [T \in Sized(S, k + 1) |-> UndoStep(ops, st, g, T)]
  <2>2. ASSUME NEW T \in Sized(S, k + 1), T # {} PROVE T \ {Min(T)} \in Sized(S, k)
    <3>1. Min(T) \in T
      BY <1>1, <2>2, MinIn DEF Sized
    <3> QED BY <1>2, <3>1, FS_RemoveElement DEF Sized
  <2>3. Sized(S, k) \subseteq Sized(S, k + 1)
    BY <1>2 DEF Sized
  <2>4. \A T \in Sized(S, k) : h[T] = g[T]
    BY <2>1, <2>3 DEF Undoes
  <2>5. \A T \in Sized(S, k + 1) : UndoStep(ops, st, g, T) = UndoStep(ops, st, h, T)
    BY <2>2, <2>4 DEF UndoStep
  <2>6. Undoes(ops, st, Sized(S, k + 1), h)
    BY <2>5 DEF Undoes
  <2> HIDE DEF h
  <2> QED BY <2>6
<1>5. Nat \subseteq P
  <2> HIDE DEF P
  <2> QED BY <1>3, <1>4, NatSetInduction
<1>6. PICK g : Undoes(ops, st, Sized(S, Cardinality(S)), g)
  BY <1>1, <1>2, <1>5
<1>7. Sized(S, Cardinality(S)) = SUBSET S
  BY <1>1, <1>2, FS_Subset DEF Sized
<1> QED BY <1>6, <1>7 DEF S

\* A walk through the log from its end: w[k] is what is visible once the
\* operations from the last to number k are taken back.
Walk(ops, st, n, w) ==
  /\ w[n + 1] = st
  /\ \A k \in 1 .. n : w[k] = TakenBack(ops[k], w[k + 1])

\* Every log can be walked through.
LEMMA WalkExists ==
  ASSUME NEW ops, NEW st, NEW n \in Nat
  PROVE  \E w : Walk(ops, st, n, w)
<1> DEFINE Back(j, w) == /\ w[n + 1] = st
                         /\ \A k \in 1 .. n :
                              n + 1 - k <= j => w[k] = TakenBack(ops[k], w[k + 1])
           P == {j \in Nat : \E w : Back(j, w)}
<1>1. 0 \in P
  <2> DEFINE w == [k \in 1 .. n + 1 |-> st]
  <2>1. Back(0, w)
    OBVIOUS
  <2> QED BY <2>1
<1>2. ASSUME NEW j \in Nat, j \in P PROVE j + 1 \in P
  <2>1. PICK w : Back(j, w)
    BY <1>2
  <2> DEFINE i == n - j
             u == [k \in 1 .. n + 1 |->
                     IF k = i THEN TakenBack(ops[i], w[i + 1]) ELSE w[k]]
  <2>2. Back(j + 1, u)
    <3>1. u[n + 1] = st
      BY <2>1
    <3>2. ASSUME NEW k \in 1 .. n, n + 1 - k <= j + 1
          PROVE  u[k] = TakenBack(ops[k], u[k + 1])
      <4>1. u[k + 1] = w[k + 1]
        BY <3>2
      <4>2. k # i => u[k] = w[k] /\ n + 1 - k <= j
        BY <3>2
      <4>3. k = i => u[k] = TakenBack(ops[k], w[k + 1])
        OBVIOUS
      <4> HIDE DEF u, i
      <4> QED BY <2>1, <4>1, <4>2, <4>3
    <3> HIDE DEF u
    <3> QED BY <3>1, <3>2
  <2> HIDE DEF Back, u
  <2> QED BY <2>2
<1>3. Nat \subseteq P
  <2> HIDE DEF P
  <2> QED BY <1>1, <1>2, NatSetInduction
<1>4. PICK w : Back(n, w)
  BY <1>3
<1>5. Walk(ops, st, n, w)
  BY <1>4 DEF Walk
<1> QED BY <1>5

\* Undo is the end of the walk.
LEMMA UndoWalks ==
  ASSUME NEW n \in Nat, NEW ops, DOMAIN ops = 1 .. n, NEW st,
         NEW w, Walk(ops, st, n, w)
  PROVE  Undo(ops, st) = w[1]
<1> DEFINE g == CHOOSE e : Undoes(ops, st, SUBSET (1 .. n), e)
           P == {j \in Nat : j <= n => g[(n + 1 - j) .. n] = w[n + 1 - j]}
<1>1. Undoes(ops, st, SUBSET (1 .. n), g)
  BY UndoExists
<1>2. Undo(ops, st) = g[1 .. n]
  BY UndoUnfolds
<1> HIDE DEF g
<1>3. 0 \in P
  <2>1. (n + 1 - 0) .. n = {} /\ n + 1 - 0 = n + 1
    OBVIOUS
  <2>2. g[{}] = st
    BY <1>1 DEF Undoes, UndoStep
  <2>3. w[n + 1] = st
    BY DEF Walk
  <2> QED BY <2>1, <2>2, <2>3
<1>4. ASSUME NEW j \in Nat, j \in P PROVE j + 1 \in P
  <2> SUFFICES ASSUME j + 1 <= n
               PROVE  g[(n + 1 - (j + 1)) .. n] = w[n + 1 - (j + 1)]
    OBVIOUS
  <2> DEFINE k == n + 1 - (j + 1)
  <2>1. k \in 1 .. n /\ k + 1 = n + 1 - j
    OBVIOUS
  <2>2. g[(k + 1) .. n] = w[k + 1]
    BY <1>4, <2>1
  <2> HIDE DEF k
  <2>3. /\ k .. n # {} /\ k .. n \in SUBSET (1 .. n) /\ k .. n \in SUBSET Nat
        /\ Min(k .. n) = k /\ (k .. n) \ {k} = (k + 1) .. n
    <3>1. k .. n # {} /\ k .. n \in SUBSET Nat /\ k \in k .. n
      BY <2>1
    <3>2. Min(k .. n) = k
      BY <2>1, <3>1, MinIn
    <3> QED BY <2>1, <3>1, <3>2
  <2>4. g[k .. n] = TakenBack(ops[k], w[k + 1])
    BY <1>1, <2>2, <2>3 DEF Undoes, UndoStep
  <2> QED BY <2>1, <2>4 DEF Walk, k
<1>5. Nat \subseteq P
  <2> HIDE DEF P
  <2> QED BY <1>3, <1>4, NatSetInduction
<1>6. g[(n + 1 - n) .. n] = w[n + 1 - n] /\ n + 1 - n = 1
  BY <1>5
<1> QED BY <1>2, <1>6

\* An empty log takes nothing back.
LEMMA EmptyUndo == ASSUME NEW st PROVE Undo(<<>>, st) = st
<1>1. PICK w : Walk(<<>>, st, 0, w)
  BY WalkExists
<1>2. DOMAIN <<>> = 1 .. 0
  OBVIOUS
<1> QED BY <1>1, <1>2, UndoWalks DEF Walk

\* A log takes back its last operation first.
LEMMA UndoLemma ==
  ASSUME NEW ops \in Seq(Ops), NEW op \in Ops, NEW st
  PROVE  Undo(Append(ops, op), st) = Undo(ops, TakenBack(op, st))
<1> DEFINE n == Len(ops)
           more == Append(ops, op)
<1>1. /\ n \in Nat /\ DOMAIN ops = 1 .. n
      /\ DOMAIN more = 1 .. n + 1 /\ more[n + 1] = op
      /\ \A k \in 1 .. n : more[k] = ops[k]
  OBVIOUS
<1> HIDE DEF n, more
<1>2. PICK w : Walk(ops, TakenBack(op, st), n, w)
  BY <1>1, WalkExists
<1> DEFINE u == [k \in 1 .. n + 2 |-> IF k = n + 2 THEN st ELSE w[k]]
<1>3. Walk(more, st, n + 1, u)
  <2>1. u[(n + 1) + 1] = st
    BY <1>1
  <2>2. ASSUME NEW k \in 1 .. n + 1 PROVE u[k] = TakenBack(more[k], u[k + 1])
    <3>1. CASE k = n + 1
      BY <1>1, <1>2, <3>1 DEF Walk
    <3>2. CASE k # n + 1
      <4>1. k \in 1 .. n /\ u[k] = w[k] /\ u[k + 1] = w[k + 1]
        BY <1>1, <3>2
      <4> HIDE DEF u
      <4> QED BY <1>1, <1>2, <4>1 DEF Walk
    <3> QED BY <3>1, <3>2
  <2> HIDE DEF u
  <2> QED BY <2>1, <2>2 DEF Walk
<1>4. u[1] = w[1]
  BY <1>1
<1> HIDE DEF u
<1>5. n + 1 \in Nat
  BY <1>1
<1>6. Undo(more, st) = u[1] /\ Undo(ops, TakenBack(op, st)) = w[1]
  BY <1>1, <1>2, <1>3, <1>5, UndoWalks
<1> QED BY <1>4, <1>6 DEF more

-----------------------------------------------------------------------------
(* The log of a RevertibleStore leads back to the savepoint.               *)

\* A log that is not empty is its last operation after the others.
LEMMA LastOp ==
  ASSUME NEW ops \in Seq(Ops), ops # <<>>
  PROVE  /\ Last(ops) \in Ops
         /\ Front(ops) \in Seq(Ops)
         /\ ops = Append(Front(ops), Last(ops))
         /\ Len(ops) \in Nat /\ Len(ops) > 0
         /\ Len(Front(ops)) = Len(ops) - 1
         /\ \A i \in 1 .. Len(ops) - 1 : Front(ops)[i] = ops[i]
<1> DEFINE n == Len(ops) - 1
<1>1. n \in Nat /\ Len(ops) = n + 1 /\ \A i \in 1 .. n : ops[i] \in Ops
  OBVIOUS
<1>2. Front(ops) \in Seq(Ops) /\ Len(Front(ops)) = n
      /\ \A i \in 1 .. n : Front(ops)[i] = ops[i]
  BY <1>1 DEF Front
<1>3. Last(ops) = ops[n + 1] /\ Last(ops) \in Ops
  BY <1>1 DEF Last
<1>4. ops = Append(Front(ops), Last(ops))
  <2> DEFINE f == Front(ops)
             x == Last(ops)
             u == Append(f, x)
  <2>1. f \in Seq(Ops) /\ Len(f) = n /\ x \in Ops
    BY <1>2, <1>3
  <2> HIDE DEF f, x, n
  <2>2. /\ u \in Seq(Ops) /\ Len(u) = n + 1 /\ u[n + 1] = x
        /\ \A i \in 1 .. n : u[i] = f[i]
    BY <1>1, <2>1, AppendProperties
  <2> HIDE DEF u
  <2>3. \A i \in 1 .. n + 1 : u[i] = ops[i]
    <3>1. \A i \in 1 .. n + 1 : i \in 1 .. n \/ i = n + 1
      BY <1>1
    <3> QED BY <1>2, <1>3, <2>2, <3>1 DEF f, x
  <2>4. u = ops
    BY <1>1, <2>2, <2>3, SeqEqual
  <2> QED BY <2>4 DEF u, f, x
<1>5. Len(ops) \in Nat /\ Len(ops) > 0 /\ n = Len(ops) - 1
  BY <1>1
<1> QED BY <1>2, <1>3, <1>4, <1>5

\* The view of a state one entry of which is written.
LEMMA ViewWritten ==
  ASSUME NEW st \in State, NEW p \in Paths, NEW v
  PROVE  /\ View([st EXCEPT ![p] = v]) = [View(st) EXCEPT ![p] = Seen(v)]
         /\ [View([st EXCEPT ![p] = v]) EXCEPT ![p] = Seen(st[p])] = View(st)
  BY DEF View, State

\* The types of the adaptors' variables.
AdaptorTypes == TypeOK /\ log \in Seq(Ops)

\* A stack of stores starts empty.
LEMMA AdaptorStarts == AdaptorInit => AdaptorTypes
  BY InitTyped DEF AdaptorInit, AdaptorTypes

\* What set and delete of the backing store do to the store below.
LEMMA BackingFacts ==
  ASSUME TypeOK, NEW p \in Paths
  PROVE  /\ RevertOp(p) \in Ops
         /\ BackingDelete(p) =>
              /\ Next
              /\ db'.store = db.store /\ db'.staged = db.staged
              /\ \E w \in {None, Empty} :
                   db'.pending = [db.pending EXCEPT ![p] = w] /\ Seen(w) = None
         /\ \A v \in Values : BackingSet(p, v) =>
              /\ Next
              /\ db'.store = db.store /\ db'.staged = db.staged
              /\ db'.pending = [db.pending EXCEPT ![p] = v]
              /\ Seen(v) = v /\ v # None
<1>1. /\ db \in StoreOf([Paths -> Values \cup {None}], Nat)
      /\ None \in Values \cup {None} /\ None \notin Values /\ Empty \in Values
  BY StoreAssumption, AdaptorAssumption DEF TypeOK, State
<1>2. RevertOp(p) \in Ops
  BY <1>1 DEF RevertOp, Ops, StoreOf
<1>0. ASSUME NEW v \in Values \cup {None}, db' = StoreSet(db, p, v)
      PROVE  /\ db'.store = db.store /\ db'.staged = db.staged
             /\ db'.pending = [db.pending EXCEPT ![p] = v]
  BY <1>0, <1>1 DEF StoreSet, StoreOf
<1>3. ASSUME BackingDelete(p)
      PROVE  /\ Next
             /\ db'.store = db.store /\ db'.staged = db.staged
             /\ \E w \in {None, Empty} :
                  db'.pending = [db.pending EXCEPT ![p] = w] /\ Seen(w) = None
  <2>1. CASE growing
    <3>1. Set(p, Empty)
      BY <1>3, <2>1 DEF BackingDelete
    <3>2. Seen(Empty) = None /\ Next
      BY <1>1, <2>1, <3>1 DEF Seen, Next
    <3> QED BY <1>0, <1>1, <3>1, <3>2 DEF Set
  <2>2. CASE ~growing
    <3>1. Delete(p)
      BY <1>3, <2>2 DEF BackingDelete
    <3>2. Seen(None) = None /\ Next
      BY <3>1 DEF Seen, Next
    <3> QED BY <1>0, <1>1, <3>1, <3>2 DEF Delete, StoreDelete, StoreSet
  <2> QED BY <2>1, <2>2
<1>4. ASSUME NEW v \in Values, BackingSet(p, v)
      PROVE  /\ Next
             /\ db'.store = db.store /\ db'.staged = db.staged
             /\ db'.pending = [db.pending EXCEPT ![p] = v]
             /\ Seen(v) = v /\ v # None
  <2>1. Set(p, v) /\ Next /\ Seen(v) = v /\ v # None
    BY <1>1, <1>4 DEF BackingSet, Next, Seen
  <2> QED BY <1>0, <2>1 DEF Set
<1> QED BY <1>2, <1>3, <1>4

\* Every step of a stack keeps the types, and is a step of the store below.
LEMMA AdaptorStep ==
  AdaptorTypes /\ [AdaptorNext]_vars => AdaptorTypes' /\ [Next]_db
<1> SUFFICES ASSUME AdaptorTypes, [AdaptorNext]_vars
             PROVE  log' \in Seq(Ops) /\ [Next]_db
  BY StepTyped DEF AdaptorTypes
<1>1. TypeOK /\ log \in Seq(Ops) /\ Empty \in Values
  BY AdaptorAssumption DEF AdaptorTypes
<1>2. CASE Forwarded
  <2>1. log' = log
    BY <1>2 DEF Forwarded, logged
  <2>2. \A p \in Paths : /\ BackingDelete(p) => Next
                         /\ \A v \in Values : BackingSet(p, v) => Next
    BY <1>1, BackingFacts
  <2>3. Next
    BY <1>2, <2>2 DEF Forwarded, Next
  <2> QED BY <1>1, <2>1, <2>3
<1>3. ASSUME NEW p \in Paths, NEW v \in Values, LoggedSet(p, v)
      PROVE  log' \in Seq(Ops) /\ [Next]_db
  <2>1. RevertOp(p) \in Ops /\ (BackingSet(p, v) => Next)
    BY <1>1, BackingFacts
  <2>2. BackingSet(p, v) /\ log' = Append(log, RevertOp(p))
    BY <1>3 DEF LoggedSet
  <2> QED BY <1>1, <2>1, <2>2, AppendProperties
<1>4. ASSUME NEW p \in Paths, UnloggedDelete(p) PROVE log' \in Seq(Ops) /\ [Next]_db
  <2>1. BackingDelete(p) /\ log' = log
    BY <1>4 DEF UnloggedDelete
  <2>2. Next
    BY <1>1, <2>1, BackingFacts
  <2> QED BY <1>1, <2>1, <2>2
<1>5. CASE LoggedApply \/ LoggedCommit
  <2>1. log' = <<>> /\ <<>> \in Seq(Ops)
    BY <1>5 DEF LoggedApply, LoggedCommit, ClearLog
  <2>2. [Next]_db
    BY <1>5 DEF LoggedApply, LoggedCommit, Next
  <2> QED BY <2>1, <2>2
<1>6. CASE StartReset \/ ResetEnd
  BY <1>1, <1>6 DEF StartReset, ResetEnd
<1>7. CASE ResetOp \/ ResetSet \/ ResetPanics
  <2>1. /\ Last(log) \in Ops /\ Front(log) \in Seq(Ops)
        /\ Last(log).path \in Paths /\ Last(log).old \in Values \cup {None}
    BY <1>1, <1>7, LastOp DEF ResetOp, ResetSet, ResetPanics, Ops
  <2>2. RevertOp(Last(log).path) \in Ops
    BY <1>1, <2>1, BackingFacts
  <2>3. CASE ResetOp
    BY <1>1, <2>1, <2>3, BackingFacts DEF ResetOp
  <2>4. CASE ResetSet
    <3>1. /\ Last(log).old \in Values
          /\ BackingSet(Last(log).path, Last(log).old)
          /\ log' = Append(Front(log), RevertOp(Last(log).path))
      BY <2>1, <2>4 DEF ResetSet
    <3>2. Next
      BY <1>1, <2>1, <3>1, BackingFacts
    <3> QED BY <2>1, <2>2, <3>1, <3>2, AppendProperties
  <2>5. CASE ResetPanics
    BY <2>1, <2>5 DEF ResetPanics
  <2> QED BY <1>7, <2>3, <2>4, <2>5
<1>8. CASE UNCHANGED vars
  BY <1>1, <1>8 DEF vars, logged
<1> QED BY <1>2, <1>3, <1>4, <1>5, <1>6, <1>7, <1>8 DEF AdaptorNext, ResetLoop

\* Every path in the log is visible, since every set left it so, and ...
Visible == \A i \in 1 .. Len(log) : Seen(db.pending[log[i].path]) # None

\* ... an insertion is the first operation on its path.
InsertsFirst ==
  \A i, j \in 1 .. Len(log) :
    log[i].old = None /\ j < i => log[j].path # log[i].path

\* A reset that has overwritten a value never gets rid of the operation it
\* logs for that.
Stuck == /\ log # <<>>
         /\ Seen(Last(log).old) # None
         /\ Seen(db.pending[Last(log).path]) # None

\* As long as nothing is deleted the log leads back, a reset makes it shorter
\* and keeps it so, or it runs into the panic or into the endless loop.
LogInv ==
  revertible /\ ~deleted =>
    \/ mode = "panicked"
    \/ mode = "reset" /\ Stuck
    \/ mode \in {"idle", "reset"} /\ Undo(log, View(db.pending)) = saved
                                  /\ Visible /\ InsertsFirst

\* A set that is logged keeps all that.
LEMMA LoggedSetInv ==
  ASSUME AdaptorTypes, Visible, InsertsFirst, Undo(log, View(db.pending)) = saved,
         NEW p \in Paths, NEW v \in Values, LoggedSet(p, v)
  PROVE  Visible' /\ InsertsFirst' /\ (Undo(log, View(db.pending)) = saved)'
<1>1. /\ TypeOK /\ log \in Seq(Ops)
      /\ BackingSet(p, v)
      /\ log' = Append(log, RevertOp(p)) /\ saved' = saved /\ growing' = growing
  BY DEF AdaptorTypes, LoggedSet, Idle, stack
<1>2. /\ RevertOp(p) \in Ops
      /\ db'.pending = [db.pending EXCEPT ![p] = v] /\ Seen(v) = v /\ v # None
  BY <1>1, BackingFacts
<1>3. RevertOp(p).path = p /\ RevertOp(p).old = db.pending[p]
  BY DEF RevertOp
<1>4. db.pending \in State
  BY <1>1 DEF TypeOK, StoreOf
<1> DEFINE n == Len(log)
<1>5. /\ n \in Nat /\ Len(log') = n + 1 /\ log'[n + 1] = RevertOp(p)
      /\ \A i \in 1 .. n : log'[i] = log[i] /\ log[i].path \in Paths
  <2>1. n \in Nat /\ \A i \in 1 .. n : log[i] \in Ops
    BY <1>1
  <2>2. \A i \in 1 .. n : log[i].path \in Paths
    BY <2>1 DEF Ops
  <2> QED BY <1>1, <1>2, <2>1, <2>2, AppendProperties
<1>6. \A i \in 1 .. n + 1 : i \in 1 .. n \/ i = n + 1
  BY <1>5
<1> HIDE DEF n
<1>7. \A q \in Paths : Seen(db'.pending[q]) # None <=>
                         q = p \/ Seen(db.pending[q]) # None
  BY <1>2, <1>4 DEF State
<1>8. Visible'
  <2>1. \A i \in 1 .. n : Seen(db.pending[log[i].path]) # None
    BY DEF Visible, n
  <2>2. \A i \in 1 .. n + 1 : Seen(db'.pending[log'[i].path]) # None
    BY <1>3, <1>5, <1>6, <1>7, <2>1
  <2> QED BY <1>1, <1>5, <2>2 DEF Visible, Seen
<1>9. InsertsFirst'
  <2>1. db.pending[p] = None => \A j \in 1 .. n : log[j].path # p
    BY DEF Visible, n, Seen
  <2>2. ASSUME NEW i \in 1 .. n + 1, NEW j \in 1 .. n + 1, log'[i].old = None, j < i
        PROVE  log'[j].path # log'[i].path
    <3>1. j \in 1 .. n
      BY <1>5, <2>2
    <3>2. CASE i = n + 1
      BY <1>3, <1>5, <2>1, <2>2, <3>1, <3>2
    <3>3. CASE i \in 1 .. n
      BY <1>5, <2>2, <3>1, <3>3 DEF InsertsFirst, n
    <3> QED BY <1>6, <3>2, <3>3
  <2> QED BY <1>5, <2>2 DEF InsertsFirst
<1>10. (Undo(log, View(db.pending)) = saved)'
  <2> DEFINE t == View([db.pending EXCEPT ![p] = v])
  <2>1. Undo(Append(log, RevertOp(p)), t) = Undo(log, TakenBack(RevertOp(p), t))
    BY <1>1, <1>2, UndoLemma
  <2>2. TakenBack(RevertOp(p), t) = View(db.pending)
    <3>1. TakenBack(RevertOp(p), t) = [t EXCEPT ![p] = Seen(db.pending[p])]
      BY <1>3 DEF TakenBack
    <3> QED BY <1>4, <3>1, ViewWritten
  <2>3. Undo(log', t) = saved'
    BY <1>1, <2>1, <2>2
  <2>4. Undo(log, View(db.pending))' = Undo(log', t)
    BY <1>1, <1>2 DEF Undo, FoldRight, MapThenFoldSet, View, Seen
  <2> QED BY <2>3, <2>4
<1> QED BY <1>8, <1>9, <1>10

\* Taking back an insertion, or an operation with no old value: a delete.
LEMMA ResetOpInv ==
  ASSUME AdaptorTypes, Visible, InsertsFirst, Undo(log, View(db.pending)) = saved,
         ResetOp
  PROVE  Visible' /\ InsertsFirst' /\ (Undo(log, View(db.pending)) = saved)'
<1> DEFINE op == Last(log)
           p == op.path
           n == Len(log) - 1
<1>1. /\ TypeOK /\ log \in Seq(Ops) /\ log # <<>> /\ op.old = None
      /\ BackingDelete(p) /\ log' = Front(log) /\ saved' = saved /\ growing' = growing
  BY DEF AdaptorTypes, ResetOp, stack
<1>2. /\ op \in Ops /\ Front(log) \in Seq(Ops) /\ log = Append(Front(log), op)
      /\ Len(log) = n + 1 /\ n \in Nat /\ Len(log') = n
      /\ \A i \in 1 .. n : log'[i] = log[i]
  BY <1>1, LastOp
<1>3. /\ p \in Paths /\ op = log[n + 1]
      /\ \A i \in 1 .. n : log[i].path \in Paths /\ log[i].path # p
  <2>1. p \in Paths
    BY <1>2 DEF Ops
  <2>2. op = log[n + 1]
    BY <1>2 DEF Last
  <2>3. \A i \in 1 .. n + 1 : log[i].path \in Paths
    <3>1. \A i \in 1 .. n + 1 : log[i] \in Ops
      BY <1>1, <1>2
    <3> QED BY <3>1 DEF Ops
  <2> HIDE DEF op, n
  <2>4. \A i \in 1 .. n : i \in 1 .. n + 1 /\ n + 1 \in 1 .. n + 1 /\ i < n + 1
    BY <1>2
  <2> QED BY <1>1, <1>2, <2>1, <2>2, <2>3, <2>4 DEF InsertsFirst
<1>4. PICK w \in {None, Empty} :
        db'.pending = [db.pending EXCEPT ![p] = w] /\ Seen(w) = None
  BY <1>1, <1>3, BackingFacts
<1>5. db.pending \in State
  BY <1>1 DEF TypeOK, StoreOf
<1> HIDE DEF op, n
<1>6. \A i \in 1 .. n : i \in 1 .. n + 1
  BY <1>2
<1>7. Visible'
  <2>1. \A i \in 1 .. n : Seen(db.pending[log[i].path]) # None
    BY <1>2, <1>6 DEF Visible
  <2>2. \A q \in Paths \ {p} : db'.pending[q] = db.pending[q]
    BY <1>4, <1>5 DEF State
  <2>3. \A i \in 1 .. n : Seen(db'.pending[log'[i].path]) # None
    BY <1>2, <1>3, <2>1, <2>2
  <2> QED BY <1>1, <1>2, <2>3 DEF Visible, Seen
<1>8. InsertsFirst'
  BY <1>2, <1>6 DEF InsertsFirst
<1>9. (Undo(log, View(db.pending)) = saved)'
  <2>1. Undo(Append(Front(log), op), View(db.pending))
          = Undo(Front(log), TakenBack(op, View(db.pending)))
    BY <1>2, UndoLemma
  <2>2. TakenBack(op, View(db.pending)) = [View(db.pending) EXCEPT ![p] = None]
    BY <1>1 DEF TakenBack, Seen
  <2>3. View([db.pending EXCEPT ![p] = w]) = [View(db.pending) EXCEPT ![p] = Seen(w)]
    BY <1>3, <1>5, ViewWritten
  <2>4. Undo(log', View(db'.pending)) = saved'
    BY <1>1, <1>2, <1>4, <2>1, <2>2, <2>3
  <2>5. Undo(log, View(db.pending))' = Undo(log', View(db'.pending))
    BY <1>1 DEF Undo, FoldRight, MapThenFoldSet, View, Seen
  <2> QED BY <2>4, <2>5
<1> QED BY <1>7, <1>8, <1>9

\* Taking back an overwritten value logs one more that is.
LEMMA ResetSetInv ==
  ASSUME AdaptorTypes, ResetSet, Seen(db.pending[Last(log).path]) # None
  PROVE  Stuck' /\ mode' = "reset"
<1> DEFINE op == Last(log)
           p == op.path
           old == op.old
<1>1. /\ TypeOK /\ log \in Seq(Ops) /\ log # <<>> /\ old # None
      /\ BackingSet(p, old) /\ log' = Append(Front(log), RevertOp(p))
      /\ mode' = "reset" /\ growing' = growing
  BY DEF AdaptorTypes, ResetSet, stack
<1>2. op \in Ops /\ Front(log) \in Seq(Ops)
  BY <1>1, LastOp
<1> HIDE DEF op
<1>3. p \in Paths /\ old \in Values
  BY <1>1, <1>2 DEF Ops
<1>4. /\ RevertOp(p) \in Ops
      /\ db'.pending = [db.pending EXCEPT ![p] = old] /\ Seen(old) = old
  BY <1>1, <1>3, BackingFacts
<1>5. /\ log' # <<>> /\ log' \in Seq(Ops)
      /\ Last(log') = RevertOp(p)
  BY <1>1, <1>2, <1>4, AppendProperties DEF Last
<1>6. db'.pending[p] = old
  BY <1>1, <1>3, <1>4 DEF TypeOK, StoreOf, State
<1>7. Last(log').path = p /\ Last(log').old = db.pending[p]
  BY <1>5 DEF RevertOp
<1>8. Seen(db.pending[p]) # None /\ Seen(db'.pending[p]) # None
  BY <1>1, <1>4, <1>6 DEF op
<1> QED BY <1>1, <1>5, <1>7, <1>8 DEF Stuck, Last, Seen

\* Every step keeps what the log is worth.
LEMMA LogStep == AdaptorTypes /\ LogInv /\ [AdaptorNext]_vars => LogInv'
<1> SUFFICES ASSUME AdaptorTypes, LogInv, [AdaptorNext]_vars,
                    revertible', ~deleted'
             PROVE  \/ mode' = "panicked"
                    \/ mode' = "reset" /\ Stuck'
                    \/ /\ mode' \in {"idle", "reset"}
                       /\ (Undo(log, View(db.pending)) = saved)'
                       /\ Visible' /\ InsertsFirst'
  BY DEF LogInv
<1>1. TypeOK /\ log \in Seq(Ops)
  BY DEF AdaptorTypes
<1>2. revertible' = revertible /\ growing' = growing
  BY DEF AdaptorNext, Forwarded, LoggedSet, UnloggedDelete, LoggedApply,
         LoggedCommit, StartReset, ResetLoop, ResetOp, ResetSet, ResetPanics,
         ResetEnd, Idle, stack, vars
<1>3. ~ Forwarded
  BY <1>2 DEF Forwarded
<1>4. ASSUME ~deleted
      PROVE  \/ mode = "panicked"
             \/ mode = "reset" /\ Stuck
             \/ /\ mode \in {"idle", "reset"}
                /\ Undo(log, View(db.pending)) = saved
                /\ Visible /\ InsertsFirst
  BY <1>2, <1>4 DEF LogInv
<1>5. ASSUME NEW p \in Paths, NEW v \in Values, LoggedSet(p, v)
      PROVE  /\ mode' = "idle" /\ (Undo(log, View(db.pending)) = saved)'
             /\ Visible' /\ InsertsFirst'
  <2>1. mode = "idle" /\ mode' = mode /\ deleted' = deleted
    BY <1>5 DEF LoggedSet, Idle
  <2>2. Undo(log, View(db.pending)) = saved /\ Visible /\ InsertsFirst
    BY <1>4, <2>1
  <2> QED BY <1>5, <2>1, <2>2, LoggedSetInv
<1>6. ~ \E p \in Paths : UnloggedDelete(p)
  BY DEF UnloggedDelete
<1>7. CASE LoggedApply \/ LoggedCommit
  <2>1. /\ mode' = "idle" /\ log' = <<>> /\ saved' = View(db.pending)
        /\ db'.pending = db.pending
    <3>1. db \in StoreOf(State, Nat) /\ Nat \in SUBSET Nat
      BY <1>1 DEF TypeOK
    <3>2. StoreCommit(db).pending = db.pending
      BY <3>1, CommitLemma
    <3> QED BY <1>7, <3>2 DEF LoggedApply, LoggedCommit, ClearLog, Idle, Commit
  <2>2. Undo(<<>>, View(db.pending)) = View(db.pending)
    BY EmptyUndo
  <2>3. (Undo(log, View(db.pending)) = saved)'
    <3>1. Undo(log, View(db.pending))' = Undo(log', View(db.pending))
      BY <1>2, <2>1 DEF Undo, FoldRight, MapThenFoldSet, View, Seen
    <3> QED BY <2>1, <2>2, <3>1
  <2>4. Len(log') = 0
    BY <2>1
  <2>5. Visible' /\ InsertsFirst'
    BY <2>4 DEF Visible, InsertsFirst
  <2> QED BY <2>1, <2>3, <2>5
<1>8. CASE StartReset \/ ResetEnd \/ UNCHANGED vars
  <2>1. db' = db /\ log' = log /\ saved' = saved /\ deleted' = deleted
    BY <1>8 DEF StartReset, ResetEnd, vars, logged
  <2>2. (Undo(log, View(db.pending)) = saved) => (Undo(log, View(db.pending)) = saved)'
    BY <1>2, <2>1 DEF Undo, FoldRight, MapThenFoldSet, View, Seen
  <2>3. (Visible => Visible') /\ (InsertsFirst => InsertsFirst') /\ (Stuck => Stuck')
    BY <1>2, <2>1 DEF Visible, InsertsFirst, Stuck, Seen, Last
  <2>4. \/ mode = "idle" /\ mode' = "reset"
        \/ mode = "reset" /\ mode' = "idle" /\ ~Stuck
        \/ mode' = mode
    BY <1>8 DEF StartReset, ResetEnd, Idle, Stuck, vars, logged
  <2>5. ~deleted
    BY <2>1
  <2> QED BY <1>4, <2>2, <2>3, <2>4, <2>5
<1>9. CASE ResetOp
  <2>1. mode = "reset" /\ mode' = mode /\ ~deleted /\ ~Stuck
    BY <1>9 DEF ResetOp, Stuck, Seen
  <2>2. Undo(log, View(db.pending)) = saved /\ Visible /\ InsertsFirst
    BY <1>4, <2>1
  <2> QED BY <1>9, <2>1, <2>2, ResetOpInv
<1>10. CASE ResetSet
  <2>1. mode = "reset" /\ ~deleted /\ log # <<>>
    BY <1>10 DEF ResetSet
  <2>2. Seen(db.pending[Last(log).path]) # None
    <3>1. Visible => Seen(db.pending[Last(log).path]) # None
      BY <1>1, <2>1, LastOp DEF Visible, Last
    <3> QED BY <1>4, <2>1, <3>1 DEF Stuck
  <2> QED BY <1>10, <2>2, ResetSetInv
<1>11. CASE ResetPanics
  BY <1>11 DEF ResetPanics
<1> QED BY <1>3, <1>5, <1>6, <1>7, <1>8, <1>9, <1>10, <1>11
        DEF AdaptorNext, ResetLoop

\* Unless something was deleted, the log of a RevertibleStore leads back to
\* what was visible at the last call of apply or commit.
THEOREM LogLeadsBack == AdaptorSpec => []LogUndoes
<1>1. AdaptorInit => LogInv
  <2> SUFFICES ASSUME AdaptorInit PROVE LogInv
    OBVIOUS
  <2>1. /\ log = <<>> /\ mode = "idle" /\ saved = EmptyState
        /\ db.pending = EmptyState
    BY DEF AdaptorInit, Init, NewStore
  <2>2. View(EmptyState) = EmptyState
    BY DEF View, EmptyState, Seen
  <2>3. Undo(log, View(db.pending)) = saved
    BY <2>1, <2>2, EmptyUndo
  <2>4. Len(log) = 0
    BY <2>1
  <2> QED BY <2>1, <2>3, <2>4 DEF LogInv, Visible, InsertsFirst
<1>2. LogInv => LogUndoes
  BY DEF LogInv, LogUndoes
<1> QED BY <1>1, <1>2, AdaptorStarts, AdaptorStep, LogStep, PTL DEF AdaptorSpec

-----------------------------------------------------------------------------
(* A GrowingStore implements the abstract store over the values that are   *)
(* not empty.  Each call is a step of the abstract store over all values   *)
(* (StoreStep); what a GrowingStore shows of that step is one, too.        *)

\* What a GrowingStore shows of a state, and of the versions s.
Filtered(st) == [p \in Paths |-> IF st[p] = Empty THEN None ELSE st[p]]
FilteredVersions(s) == [h \in DOMAIN s |-> Filtered(s[h])]

\* The refinement mapping of a GrowingStore, by these, ...
ShowsFiltered ==
  /\ ShownView = Filtered(db.pending)
  /\ ShownSavepoint = Filtered(db.staged)
  /\ ShownHeight = CurrentHeight(db)
  /\ ShownSnapshot = FilteredVersions(Versions(db))

\* ... and of any other stack, which shows nothing.
ShowsNothing ==
  /\ ShownView = EmptyState /\ ShownSavepoint = EmptyState
  /\ ShownHeight = 0 /\ ShownSnapshot = [h \in {} |-> EmptyState]

\* A GrowingStore shows what it stores, without the empty values.
LEMMA GrownShows == Grown => ShowsFiltered
<1> SUFFICES ASSUME Grown PROVE ShowsFiltered
  OBVIOUS
<1>1. \A st : View(st) = Filtered(st)
  BY DEF Grown, View, Seen, Filtered
<1>2. ShownSnapshot = [h \in (db.store.pruned + 1) .. CurrentHeight(db) |->
                         View(db.store.vec[h - db.store.pruned])]
  BY DEF ShownSnapshot
<1>3. ShownSnapshot = FilteredVersions(Versions(db))
  BY <1>1, <1>2 DEF FilteredVersions, Versions
<1> QED BY <1>1, <1>3 DEF ShowsFiltered, ShownView, ShownSavepoint, ShownHeight

\* Another stack shows nothing.
LEMMA NothingShown == ~Grown => ShowsNothing
<1> SUFFICES ASSUME ~Grown PROVE ShownSnapshot = [h \in {} |-> EmptyState]
  BY DEF ShowsNothing, ShownView, ShownSavepoint, ShownHeight
<1>1. ShownSnapshot = [h \in {} |-> View(db.store.vec[h - db.store.pruned])]
  BY DEF ShownSnapshot
<1> QED BY <1>1

\* A step of a GrowingStore is a step of the abstract store it shows.
LEMMA GrownStep ==
  ASSUME TypeOK, [Next]_db, Grown, Grown'
  PROVE  [Shown!Next]_(Shown!vars)
<1>1. /\ ShownView = Filtered(db.pending) /\ ShownView' = Filtered(db'.pending)
      /\ ShownSavepoint = Filtered(db.staged)
      /\ ShownSavepoint' = Filtered(db'.staged)
      /\ ShownHeight = CurrentHeight(db) /\ ShownHeight' = CurrentHeight(db')
      /\ ShownSnapshot = FilteredVersions(Versions(db))
      /\ ShownSnapshot' = FilteredVersions(Versions(db'))
  <2>1. (Grown => ShowsFiltered)'
    BY GrownShows, PTL
  <2> QED BY <2>1, GrownShows DEF ShowsFiltered
<1>2. [Abs!Next]_(Abs!vars)
  BY StoreStep
<1>3. db.pending \in State /\ Empty # None
  BY StoreAssumption, AdaptorAssumption DEF TypeOK, StoreOf
<1>4. ASSUME NEW p \in Paths, NEW v \in Values \cup {None}, Abs!Write(p, v)
      PROVE  Shown!Next
  <2> DEFINE w == IF v = Empty THEN None ELSE v
  <2>1. w \in (Values \ {Empty}) \cup {None}
    OBVIOUS
  <2>2. /\ db'.pending = [db.pending EXCEPT ![p] = v]
        /\ db'.staged = db.staged /\ CurrentHeight(db') = CurrentHeight(db)
        /\ Versions(db') = Versions(db)
    BY <1>4 DEF Abs!Write, Versions
  <2>3. Filtered([db.pending EXCEPT ![p] = v]) = [Filtered(db.pending) EXCEPT ![p] = w]
    BY <1>3 DEF Filtered, State
  <2>4. Shown!Write(p, w)
    BY <1>1, <2>2, <2>3 DEF Shown!Write
  <2> QED BY <2>1, <2>4 DEF Shown!Next
<1>5. ASSUME Abs!Save PROVE Shown!Next
  <2>1. Shown!Save
    BY <1>1, <1>5 DEF Abs!Save, Shown!Save, Versions
  <2> QED BY <2>1 DEF Shown!Next
<1>6. ASSUME Abs!Rollback PROVE Shown!Next
  <2>1. Shown!Rollback
    BY <1>1, <1>6 DEF Abs!Rollback, Shown!Rollback, Versions
  <2> QED BY <2>1 DEF Shown!Next
<1> DEFINE V == Versions(db)
           H == CurrentHeight(db)
<1>7. ASSUME Abs!Commit PROVE Shown!Next
  <2>1. /\ H < MaxHeight /\ CurrentHeight(db') = H + 1
        /\ Versions(db') = [h \in DOMAIN V \cup {H + 1} |->
                              IF h = H + 1 THEN db.pending ELSE V[h]]
        /\ db'.staged = db.pending /\ db'.pending = db.pending
    BY <1>7 DEF Abs!Commit, Versions
  <2> HIDE DEF V, H
  <2>2. FilteredVersions(Versions(db')) =
          [h \in DOMAIN FilteredVersions(V) \cup {H + 1} |->
             IF h = H + 1 THEN Filtered(db.pending) ELSE FilteredVersions(V)[h]]
    BY <2>1 DEF FilteredVersions
  <2>3. Shown!Commit
    BY <1>1, <2>1, <2>2 DEF Shown!Commit, V, H
  <2> QED BY <2>3 DEF Shown!Next
<1>8. ASSUME NEW n \in 1 .. H, Abs!Forget(n) PROVE Shown!Next
  <2>1. /\ Versions(db') = [h \in {g \in DOMAIN V : g > n} |-> V[h]]
        /\ db'.pending = db.pending /\ db'.staged = db.staged
        /\ CurrentHeight(db') = H
    BY <1>8 DEF Abs!Forget, Versions
  <2> HIDE DEF V, H
  <2>2. FilteredVersions(Versions(db')) =
          [h \in {g \in DOMAIN FilteredVersions(V) : g > n} |-> FilteredVersions(V)[h]]
    BY <2>1 DEF FilteredVersions
  <2>3. Shown!Forget(n)
    BY <1>1, <2>1, <2>2 DEF Shown!Forget, V, H
  <2>4. n \in 1 .. ShownHeight
    BY <1>1, <1>8 DEF H
  <2> QED BY <2>3, <2>4 DEF Shown!Next
<1>9. ASSUME UNCHANGED Abs!vars PROVE UNCHANGED Shown!vars
  BY <1>1, <1>9 DEF Abs!vars, Shown!vars, Versions
<1> QED BY <1>2, <1>4, <1>5, <1>6, <1>7, <1>8, <1>9 DEF Abs!Next

\* No snapshot, no rollback and no overwriting of a GrowingStore ever shows
\* that deleted paths are still there, with an empty value.
THEOREM GrowingStoreRefines == AdaptorSpec => GrowingImplementsVersionedStore
<1>1. AdaptorInit => Shown!Init
  <2> SUFFICES ASSUME AdaptorInit PROVE Shown!Init
    OBVIOUS
  <2>1. /\ db.pending = EmptyState /\ db.staged = EmptyState
        /\ db.store.vec = <<>> /\ db.store.pruned = 0
    BY DEF AdaptorInit, Init, NewStore, EmptyVec
  <2>2. CurrentHeight(db) = 0 /\ Versions(db) = [h \in {} |-> EmptyState]
    <3>1. CurrentHeight(db) = 0
      BY <2>1 DEF CurrentHeight, OriginalLength
    <3>2. (db.store.pruned + 1) .. CurrentHeight(db) = {}
      BY <2>1, <3>1
    <3> QED BY <3>1, <3>2 DEF Versions
  <2>3. Filtered(EmptyState) = EmptyState
    BY DEF Filtered, EmptyState
  <2>4. FilteredVersions([h \in {} |-> EmptyState]) = [h \in {} |-> EmptyState]
    BY DEF FilteredVersions
  <2>5. /\ ShownView = EmptyState /\ ShownSavepoint = EmptyState
        /\ ShownHeight = 0 /\ ShownSnapshot = [h \in {} |-> EmptyState]
    BY <2>1, <2>2, <2>3, <2>4, GrownShows, NothingShown
       DEF ShowsFiltered, ShowsNothing
  <2> QED BY <2>5 DEF Shown!Init, EmptyState
<1>2. AdaptorTypes /\ [AdaptorNext]_vars => [Shown!Next]_(Shown!vars)
  <2> SUFFICES ASSUME AdaptorTypes, [AdaptorNext]_vars
               PROVE  [Shown!Next]_(Shown!vars)
    OBVIOUS
  <2>1. TypeOK /\ [Next]_db
    BY AdaptorStep DEF AdaptorTypes
  <2>2. revertible' = revertible /\ growing' = growing
    BY DEF AdaptorNext, Forwarded, LoggedSet, UnloggedDelete, LoggedApply,
           LoggedCommit, StartReset, ResetLoop, ResetOp, ResetSet, ResetPanics,
           ResetEnd, Idle, stack, vars
  <2>3. CASE Grown
    BY <2>1, <2>2, <2>3, GrownStep DEF Grown
  <2>4. CASE ~Grown
    <3>1. ~Grown'
      BY <2>2, <2>4 DEF Grown
    <3>2. (~Grown => ShowsNothing)'
      BY NothingShown, PTL
    <3> QED BY <2>4, <3>1, <3>2, NothingShown DEF ShowsNothing, Shown!vars
  <2> QED BY <2>3, <2>4
<1> QED BY <1>1, <1>2, AdaptorStarts, AdaptorStep, PTL
        DEF AdaptorSpec, GrowingImplementsVersionedStore, Shown!Spec
=============================================================================
