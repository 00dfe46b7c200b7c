------------------------------ MODULE AppProofs ------------------------------
(***************************************************************************)
(* Proofs about modules BaseCoinApp, AbciRequests and Accounts, for any    *)
(* number of modules, stores a message may write to, transactions,         *)
(* messages and blocks: the versions of the stores and where the writes of *)
(* transactions are, then what requests answer, who has an account, and    *)
(* what its sequence number counts.                                        *)
(***************************************************************************)
EXTENDS Accounts, AbciRequests, SharedLemmas

ModuleStores == StoreOf(State, {0})
MainStores == StoreOf([Modules -> Roots], {0})

(* The committed versions of the module stores and of the main store.      *)
Vec(m) == stores[m].store.vec
MainVec == main.store.vec
Height == Len(MainVec)

(* The inductive invariant, first part: the versions.                      *)

\* The height of the stores, as Lockstep, on the vectors.
Aligned ==
  \A m \in Modules :
    Len(Vec(m)) = Height + (IF pc = "commit" /\ m < next THEN 1 ELSE 0)

\* Every version of the main store holds the roots of the same height.
Chained ==
  \A h \in 1 .. Height : \A m \in Modules : MainVec[h][m] = Vec(m)[h]

\* While commit runs, the main store already holds the roots of the new
\* versions of the modules it has passed.
RootsReady ==
  pc = "commit" => \A m \in Modules : m < next => main.pending[m] = Vec(m)[Height + 1]

\* A block that has begun fits below the bound; commit starts with module 1.
Cycle ==
  /\ pc \in {"block", "msgs", "failed", "panicked", "commit"} => Height < MaxHeight
  /\ pc # "commit" => next = 1

(* Second part: where the writes of the transactions are.                  *)

\* At most one transaction is running, the one being delivered in this block.
Running ==
  /\ \A t \in Txs : status[t] = "running" =>
       pc \in {"msgs", "failed", "panicked"} /\ tx = t /\ landed[t] = Height + 1
  /\ pc \in {"msgs", "failed", "panicked"} => tx \in Txs /\ status[tx] = "running"

Landed == \A t \in Txs : landed[t] <= Height + 1

Untouched ==
  \A t \in Txs : status[t] \in {"new", "rejected"} => touched[t] = {}

PendingWrites ==
  \A t \in Txs, m \in Modules :
    stores[m].pending[Tx(t)] = Mark <=> m \in touched[t] /\ status[t] \in {"ok", "running"}

StagedWrites ==
  \A t \in Txs, m \in Modules :
    stores[m].staged[Tx(t)] = Mark <=> m \in touched[t] /\ status[t] = "ok"

VersionWrites ==
  \A t \in Txs, m \in Modules : \A h \in 1 .. Len(Vec(m)) :
    Vec(m)[h][Tx(t)] = Mark <=> m \in touched[t] /\ status[t] = "ok" /\ h >= landed[t]

VersionInv == Aligned /\ Chained /\ RootsReady /\ Cycle
WriteInv == Running /\ Landed /\ Untouched /\ PendingWrites /\ StagedWrites /\ VersionWrites

IInv == TypeOK /\ VersionInv /\ WriteInv

-----------------------------------------------------------------------------
\* The writers have different paths, and the assumptions in a usable form.
LEMMA WriterFacts ==
  /\ Build \in Writers /\ Genesis \in Writers
  /\ \A b \in 1 .. MaxHeight : Begin(b) \in Writers
  /\ \A t \in Txs : /\ Tx(t) \in Writers /\ Tx(t) # Build /\ Tx(t) # Genesis
                    /\ \A b : Tx(t) # Begin(b)
                    /\ \A u \in Txs : u # t => Tx(u) # Tx(t)
  BY DEF Writers, Build, Genesis, Begin, Tx

\* What the assumption on the constants says of the bounds and of None.
LEMMA ConstantFacts ==
  /\ NumModules \in Nat \ {0} /\ Modules \subseteq Nat
  /\ MaxHeight \in Nat /\ MaxMsgs \in Nat \ {0}
  /\ None \notin State /\ None \notin [Modules -> Roots] /\ State \subseteq Roots
  /\ {0} \in SUBSET Nat
  /\ None # Mark
  BY AppAssumption DEF Modules, Roots

\* Nothing is pruned here, so heights are lengths and versions are elements.
LEMMA HeightFacts ==
  ASSUME TypeOK
  PROVE  /\ MainVec \in Seq([Modules -> Roots]) /\ Height \in Nat
         /\ CurrentHeight(main) = Height
         /\ \A m \in Modules : /\ Vec(m) \in Seq(State) /\ Len(Vec(m)) \in Nat
                               /\ CurrentHeight(stores[m]) = Len(Vec(m))
  BY DEF TypeOK, StoreOf, VecOf, CurrentHeight, OriginalLength, Vec, MainVec, Height

\* A height up to the current one reads the element at that place.
LEMMA VersionFacts ==
  ASSUME TypeOK
  PROVE  /\ \A h \in 1 .. Height : /\ GetState(main, Stable(h)) = MainVec[h]
                                   /\ MainVec[h] \in [Modules -> Roots]
         /\ \A m \in Modules : \A h \in 1 .. Len(Vec(m)) :
              GetState(stores[m], Stable(h)) = Vec(m)[h] /\ Vec(m)[h] \in State
<1>1. /\ main \in StoreOf([Modules -> Roots], {0}) /\ main.store.pruned = 0
      /\ \A m \in Modules : stores[m] \in StoreOf(State, {0}) /\ stores[m].store.pruned = 0
  BY DEF TypeOK, StoreOf, VecOf
<1>2. ASSUME NEW h \in 1 .. Height
      PROVE  GetState(main, Stable(h)) = MainVec[h] /\ MainVec[h] \in [Modules -> Roots]
  <2>1. h \in Nat /\ h \in (main.store.pruned + 1) .. CurrentHeight(main)
        /\ h - main.store.pruned = h
    BY <1>1, HeightFacts
  <2> DEFINE R == [Modules -> Roots]
  <2>2. main \in StoreOf(R, {0}) /\ None \notin R /\ {0} \in SUBSET Nat
    BY <1>1, ConstantFacts
  <2>3. MainVec = main.store.vec
    BY DEF MainVec
  <2> HIDE DEF R
  <2>4. /\ GetState(main, Stable(h)) = main.store.vec[h - main.store.pruned]
        /\ GetState(main, Stable(h)) \in R
    BY <2>1, <2>2, ReadLemma
  <2> QED BY <2>1, <2>3, <2>4 DEF R
<1>3. ASSUME NEW m \in Modules, NEW h \in 1 .. Len(Vec(m))
      PROVE  GetState(stores[m], Stable(h)) = Vec(m)[h] /\ Vec(m)[h] \in State
  <2> DEFINE s == stores[m]
  <2>1. h \in Nat /\ h \in (s.store.pruned + 1) .. CurrentHeight(s)
        /\ h - s.store.pruned = h /\ s \in StoreOf(State, {0})
    BY <1>1, HeightFacts
  <2>2. Vec(m) = s.store.vec
    BY DEF Vec
  <2> HIDE DEF s
  <2>3. GetState(s, Stable(h)) = s.store.vec[h - s.store.pruned] /\ GetState(s, Stable(h)) \in State
    BY <2>1, ReadLemma, ConstantFacts
  <2> QED BY <2>1, <2>2, <2>3 DEF s
<1> QED BY <1>2, <1>3

\* What the writes of a handler do to the module stores.
LEMMA WrittenFacts ==
  ASSUME TypeOK, NEW W \in SUBSET Modules, NEW w \in Writers, stores' = Written(W, w)
  PROVE  /\ stores' \in [Modules -> ModuleStores]
         /\ \A m \in Modules :
              /\ stores'[m].store = stores[m].store
              /\ stores'[m].staged = stores[m].staged
              /\ \A v \in Writers \ {w} : stores'[m].pending[v] = stores[m].pending[v]
              /\ m \in W => stores'[m].pending[w] = Mark
              /\ m \notin W => stores'[m].pending[w] = stores[m].pending[w]
<1>1. ASSUME NEW m \in Modules
      PROVE  /\ stores'[m] \in ModuleStores
             /\ stores'[m].store = stores[m].store
             /\ stores'[m].staged = stores[m].staged
             /\ \A v \in Writers \ {w} : stores'[m].pending[v] = stores[m].pending[v]
             /\ m \in W => stores'[m].pending[w] = Mark
             /\ m \notin W => stores'[m].pending[w] = stores[m].pending[w]
  <2> DEFINE s == stores[m]
  <2>1. s \in StoreOf([Writers -> {Mark, None}], {0}) /\ s.pending \in [Writers -> {Mark, None}]
    BY DEF TypeOK, StoreOf, State
  <2>2. CASE m \in W
    <3>1. stores'[m] = StoreSet(s, w, Mark)
      BY <2>2 DEF Written
    <3> HIDE DEF s
    <3>2. /\ StoreSet(s, w, Mark) \in StoreOf([Writers -> {Mark, None}], {0})
          /\ StoreSet(s, w, Mark).store = s.store
          /\ StoreSet(s, w, Mark).staged = s.staged
          /\ StoreSet(s, w, Mark).pending = [s.pending EXCEPT ![w] = Mark]
      BY <2>1 DEF StoreSet, StoreOf
    <3>3. /\ [s.pending EXCEPT ![w] = Mark][w] = Mark
          /\ \A v \in Writers \ {w} : [s.pending EXCEPT ![w] = Mark][v] = s.pending[v]
      BY <2>1
    <3> QED BY <2>2, <3>1, <3>2, <3>3 DEF s, ModuleStores, State
  <2>3. CASE m \notin W
    <3>1. stores'[m] = s
      BY <2>3 DEF Written
    <3> QED BY <2>1, <2>3, <3>1 DEF ModuleStores, State
  <2> QED BY <2>2, <2>3
<1>2. stores' = [m \in Modules |-> stores'[m]]
  BY DEF Written
<1> QED BY <1>1, <1>2

\* A step that leaves all committed versions, pc = "commit" and `next` alone.
LEMMA KeepsVersions ==
  ASSUME TypeOK, VersionInv,
         \A m \in Modules : stores'[m].store = stores[m].store,
         main'.store = main.store, pc # "commit", pc' # "commit", next' = next
  PROVE  /\ Aligned' /\ Chained' /\ RootsReady' /\ (next' = 1)
         /\ Height' = Height
         /\ \A m \in Modules : Vec(m)' = Vec(m)
<1>1. Height' = Height /\ MainVec' = MainVec /\ \A m \in Modules : Vec(m)' = Vec(m)
  BY DEF Height, MainVec, Vec
<1> QED BY <1>1 DEF VersionInv, Aligned, Chained, RootsReady, Cycle

\* New stores have no versions and no writes of transactions.
LEMMA InitInv == Init => IInv
<1> SUFFICES ASSUME Init PROVE IInv
  OBVIOUS
<1> DEFINE blank == [w \in Writers |-> None]
           new == [store |-> [vec |-> <<>>, pruned |-> 0], staged |-> blank, pending |-> blank]
           built == [new EXCEPT !.pending[Build] = Mark]
           roots == [m \in Modules |-> None]
<1>1. /\ stores = [m \in Modules |-> IF m \in BuildWrites THEN built ELSE new]
      /\ main = [store |-> [vec |-> <<>>, pruned |-> 0], staged |-> roots, pending |-> roots]
  BY DEF Init, NewStore, EmptyVec, StoreSet
<1>2. /\ new \in ModuleStores /\ built \in ModuleStores
      /\ new.store.vec = <<>> /\ built.store.vec = <<>>
      /\ new.staged = blank /\ built.staged = blank /\ new.pending = blank
      /\ built.pending = [blank EXCEPT ![Build] = Mark]
  <2>1. <<>> \in Seq(State)
    OBVIOUS
  <2>2. blank \in State
    BY DEF State
  <2>3. [blank EXCEPT ![Build] = Mark] \in State
    BY <2>2 DEF State
  <2> HIDE DEF blank
  <2> QED BY <2>1, <2>2, <2>3 DEF ModuleStores, StoreOf, VecOf
<1>3. main \in MainStores
  <2>1. <<>> \in Seq([Modules -> Roots]) /\ roots \in [Modules -> Roots]
    BY DEF Roots
  <2> HIDE DEF roots
  <2> QED BY <1>1, <2>1 DEF MainStores, StoreOf, VecOf
<1>4. \A t \in Txs : blank[Tx(t)] = None /\ [blank EXCEPT ![Build] = Mark][Tx(t)] = None
  BY WriterFacts
<1> HIDE DEF blank, new, built, roots
<1>5. \A m \in Modules : /\ stores[m] \in ModuleStores /\ stores[m].store.vec = <<>>
                         /\ \A t \in Txs : /\ stores[m].pending[Tx(t)] = None
                                           /\ stores[m].staged[Tx(t)] = None
  BY <1>1, <1>2, <1>4
<1>6. TypeOK
  <2>1. stores \in [Modules -> ModuleStores]
    BY <1>1, <1>2
  <2>2. 0 \in 0 .. MaxMsgs /\ 1 \in 1 .. NumModules + 1 /\ 0 \in 0 .. MaxHeight
    BY ConstantFacts
  <2> QED BY <1>3, <2>1, <2>2 DEF Init, TypeOK, ModuleStores, MainStores
<1>7. Height = 0 /\ \A m \in Modules : Len(Vec(m)) = 0
  BY <1>1, <1>5 DEF Height, MainVec, Vec
<1>8. VersionInv
  BY <1>7 DEF Init, VersionInv, Aligned, Chained, RootsReady, Cycle
<1>9. WriteInv
  <2>1. Running /\ Landed /\ Untouched
    BY <1>7 DEF Init, Running, Landed, Untouched
  <2>2. PendingWrites /\ StagedWrites
    BY <1>5, ConstantFacts DEF Init, PendingWrites, StagedWrites
  <2>3. VersionWrites
    BY <1>7 DEF VersionWrites
  <2> QED BY <2>1, <2>2, <2>3 DEF WriteInv
<1> QED BY <1>6, <1>8, <1>9 DEF IInv

\* The construction of the app, the genesis and begin_block write to paths
\* that belong to no transaction.
LEMMA BlockWriteInv ==
  ASSUME IInv, NEW W \in SUBSET Modules, NEW w \in Writers, stores' = Written(W, w),
         \A t \in Txs : Tx(t) # w,
         pc \in {"start", "idle"}, pc' \in {"idle", "block"},
         pc' = "block" => Height < MaxHeight,
         UNCHANGED <<main, tx, left, next, status, touched, landed>>
  PROVE  IInv'
<1>1. TypeOK /\ VersionInv /\ WriteInv
  BY DEF IInv
<1>2. /\ stores' \in [Modules -> ModuleStores]
      /\ \A m \in Modules : /\ stores'[m].store = stores[m].store
                            /\ stores'[m].staged = stores[m].staged
                            /\ \A t \in Txs : stores'[m].pending[Tx(t)] = stores[m].pending[Tx(t)]
  <2>1. /\ stores' \in [Modules -> ModuleStores]
        /\ \A m \in Modules :
             /\ stores'[m].store = stores[m].store
             /\ stores'[m].staged = stores[m].staged
             /\ \A v \in Writers \ {w} : stores'[m].pending[v] = stores[m].pending[v]
    BY <1>1, WrittenFacts
  <2>2. \A t \in Txs : Tx(t) \in Writers \ {w}
    BY WriterFacts
  <2> QED BY <2>1, <2>2
<1>3. TypeOK'
  BY <1>1, <1>2 DEF TypeOK, ModuleStores
<1>4. /\ Aligned' /\ Chained' /\ RootsReady' /\ next' = 1
      /\ Height' = Height /\ \A m \in Modules : Vec(m)' = Vec(m)
  BY <1>1, <1>2, KeepsVersions
<1>5. Cycle'
  BY <1>4 DEF Cycle
<1>6. Running' /\ Landed' /\ Untouched'
  BY <1>1, <1>4 DEF WriteInv, Running, Landed, Untouched
<1>7. PendingWrites' /\ StagedWrites'
  BY <1>1, <1>2 DEF WriteInv, PendingWrites, StagedWrites
<1>8. VersionWrites'
  BY <1>1, <1>4 DEF WriteInv, VersionWrites
<1> QED BY <1>3, <1>4, <1>5, <1>6, <1>7, <1>8 DEF IInv, VersionInv, WriteInv

\* A message writes for the running transaction only.
LEMMA MessageInv ==
  ASSUME IInv, pc = "msgs", NEW W \in SUBSET Modules, stores' = Written(W, Tx(tx)),
         touched' = [touched EXCEPT ![tx] = @ \cup W],
         pc' \in {"msgs", "failed", "panicked"}, left' \in 0 .. MaxMsgs,
         UNCHANGED <<main, tx, next, status, landed>>
  PROVE  IInv'
<1>1. TypeOK /\ VersionInv /\ WriteInv
  BY DEF IInv
<1>2. tx \in Txs /\ status[tx] = "running" /\ Tx(tx) \in Writers
  BY <1>1, WriterFacts DEF WriteInv, Running
<1>3. /\ stores' \in [Modules -> ModuleStores]
      /\ \A m \in Modules :
           /\ stores'[m].store = stores[m].store
           /\ stores'[m].staged = stores[m].staged
           /\ \A v \in Writers \ {Tx(tx)} : stores'[m].pending[v] = stores[m].pending[v]
           /\ m \in W => stores'[m].pending[Tx(tx)] = Mark
           /\ m \notin W => stores'[m].pending[Tx(tx)] = stores[m].pending[Tx(tx)]
  BY <1>1, <1>2, WrittenFacts
<1>4. /\ touched \in [Txs -> SUBSET Modules] /\ touched' \in [Txs -> SUBSET Modules]
      /\ touched'[tx] = touched[tx] \cup W
      /\ \A t \in Txs \ {tx} : touched'[t] = touched[t]
  BY <1>1, <1>2 DEF TypeOK
<1>5. TypeOK'
  BY <1>1, <1>3, <1>4 DEF TypeOK, ModuleStores
<1>6. /\ Aligned' /\ Chained' /\ RootsReady' /\ next' = 1
      /\ Height' = Height /\ \A m \in Modules : Vec(m)' = Vec(m)
  BY <1>1, <1>3, KeepsVersions
<1>7. Cycle'
  BY <1>1, <1>6 DEF VersionInv, Cycle
<1>8. Running' /\ Landed'
  BY <1>1, <1>2, <1>6 DEF WriteInv, Running, Landed
<1>9. Untouched'
  BY <1>1, <1>2, <1>4 DEF WriteInv, Untouched
<1>10. PendingWrites'
  <2> SUFFICES ASSUME NEW t \in Txs, NEW m \in Modules
               PROVE  stores'[m].pending[Tx(t)] = Mark <=>
                        m \in touched'[t] /\ status[t] \in {"ok", "running"}
    BY DEF PendingWrites
  <2>1. stores[m].pending[Tx(t)] = Mark <=>
          m \in touched[t] /\ status[t] \in {"ok", "running"}
    BY <1>1 DEF WriteInv, PendingWrites
  <2>2. CASE t = tx
    BY <1>2, <1>3, <1>4, <2>1, <2>2
  <2>3. CASE t # tx
    <3>1. Tx(t) \in Writers \ {Tx(tx)}
      BY <1>2, <2>3, WriterFacts
    <3> QED BY <1>3, <1>4, <2>1, <2>3, <3>1
  <2> QED BY <2>2, <2>3
<1>11. StagedWrites'
  <2> SUFFICES ASSUME NEW t \in Txs, NEW m \in Modules
               PROVE  stores'[m].staged[Tx(t)] = Mark <=> m \in touched'[t] /\ status[t] = "ok"
    BY DEF StagedWrites
  <2> QED BY <1>1, <1>2, <1>3, <1>4 DEF WriteInv, StagedWrites
<1>12. VersionWrites'
  <2> SUFFICES ASSUME NEW t \in Txs, NEW m \in Modules, NEW h \in 1 .. Len(Vec(m))
               PROVE  Vec(m)[h][Tx(t)] = Mark <=>
                        m \in touched'[t] /\ status[t] = "ok" /\ h >= landed[t]
    BY <1>6 DEF VersionWrites
  <2> QED BY <1>1, <1>2, <1>4 DEF WriteInv, VersionWrites
<1> QED BY <1>5, <1>6, <1>7, <1>8, <1>9, <1>10, <1>11, <1>12 DEF IInv, VersionInv, WriteInv

\* deliver_tx that returns at once, and the start of its loop.
LEMMA EnterInv ==
  ASSUME IInv, NEW t \in Txs, RejectTx(t) \/ DeliverTx(t)
  PROVE  IInv'
<1>1. TypeOK /\ VersionInv /\ WriteInv
  BY DEF IInv
<1>2. /\ pc = "block" /\ pc' \in {"block", "msgs"} /\ status[t] = "new"
      /\ UNCHANGED <<stores, main, next, touched>>
  BY DEF RejectTx, DeliverTx
<1>3. /\ Height \in Nat /\ Height < MaxHeight /\ Block = Height + 1
      /\ Height + 1 \in 0 .. MaxHeight
  BY <1>1, <1>2, HeightFacts, ConstantFacts DEF Block, VersionInv, Cycle
<1>4. /\ status' = [status EXCEPT ![t] = IF pc' = "msgs" THEN "running" ELSE "rejected"]
      /\ landed' = IF pc' = "msgs" THEN [landed EXCEPT ![t] = Height + 1] ELSE landed
      /\ left' \in 0 .. MaxMsgs /\ tx' \in Txs \cup {None}
      /\ pc' = "msgs" => tx' = t
  <2>1. CASE RejectTx(t)
    BY <1>1, <1>2, <2>1 DEF RejectTx, TypeOK
  <2>2. CASE DeliverTx(t)
    <3>1. 1 .. MaxMsgs \subseteq 0 .. MaxMsgs
      BY ConstantFacts
    <3> QED BY <1>1, <1>3, <2>2, <3>1 DEF DeliverTx
  <2> QED BY <2>1, <2>2
<1>5. /\ status \in [Txs -> {"new", "rejected", "running", "ok", "failed"}]
      /\ landed \in [Txs -> 0 .. MaxHeight]
  BY <1>1 DEF TypeOK
<1>6. /\ status'[t] = IF pc' = "msgs" THEN "running" ELSE "rejected"
      /\ \A u \in Txs \ {t} : status'[u] = status[u] /\ landed'[u] = landed[u]
      /\ landed'[t] = IF pc' = "msgs" THEN Height + 1 ELSE landed[t]
  BY <1>4, <1>5
<1>7. TypeOK'
  <2>1. /\ status' \in [Txs -> {"new", "rejected", "running", "ok", "failed"}]
        /\ landed' \in [Txs -> 0 .. MaxHeight]
    BY <1>3, <1>4, <1>5
  <2> QED BY <1>1, <1>2, <1>4, <2>1 DEF TypeOK
<1>8. /\ Aligned' /\ Chained' /\ RootsReady' /\ next' = 1
      /\ Height' = Height /\ \A m \in Modules : Vec(m)' = Vec(m)
  BY <1>1, <1>2, KeepsVersions
<1>9. Cycle'
  BY <1>3, <1>8 DEF Cycle
<1>10. touched[t] = {} /\ \A u \in Txs : status[u] # "running"
  BY <1>1, <1>2 DEF WriteInv, Untouched, Running
<1>11. Running' /\ Landed' /\ Untouched'
  <2>1. Running'
    BY <1>2, <1>4, <1>6, <1>8, <1>10 DEF Running
  <2>2. Landed'
    BY <1>1, <1>3, <1>6, <1>8 DEF WriteInv, Landed
  <2>3. Untouched'
    BY <1>1, <1>2, <1>6, <1>10 DEF WriteInv, Untouched
  <2> QED BY <2>1, <2>2, <2>3
<1>12. PendingWrites'
  <2> SUFFICES ASSUME NEW u \in Txs, NEW m \in Modules
               PROVE  stores[m].pending[Tx(u)] = Mark <=>
                        m \in touched[u] /\ status'[u] \in {"ok", "running"}
    BY <1>2 DEF PendingWrites
  <2> QED BY <1>1, <1>6, <1>10 DEF WriteInv, PendingWrites
<1>13. StagedWrites'
  <2> SUFFICES ASSUME NEW u \in Txs, NEW m \in Modules
               PROVE  stores[m].staged[Tx(u)] = Mark <=> m \in touched[u] /\ status'[u] = "ok"
    BY <1>2 DEF StagedWrites
  <2> QED BY <1>1, <1>6, <1>10 DEF WriteInv, StagedWrites
<1>14. VersionWrites'
  <2> SUFFICES ASSUME NEW u \in Txs, NEW m \in Modules, NEW h \in 1 .. Len(Vec(m))
               PROVE  Vec(m)[h][Tx(u)] = Mark <=>
                        m \in touched[u] /\ status'[u] = "ok" /\ h >= landed'[u]
    BY <1>2, <1>8 DEF VersionWrites
  <2> QED BY <1>1, <1>6, <1>10 DEF WriteInv, VersionWrites
<1> QED BY <1>7, <1>8, <1>9, <1>11, <1>12, <1>13, <1>14 DEF IInv, VersionInv, WriteInv

\* The end of a transaction: what reset and apply have in common.
LEMMA SettleInv ==
  ASSUME IInv, ResetAll \/ ApplyAll
  PROVE  IInv'
<1>1. TypeOK /\ VersionInv /\ WriteInv
  BY DEF IInv
<1>2. /\ pc \in {"msgs", "failed"} /\ pc' = "block" /\ left' \in 0 .. MaxMsgs
      /\ UNCHANGED <<tx, next, touched, landed>>
      /\ status' = [status EXCEPT ![tx] = IF ApplyAll THEN "ok" ELSE "failed"]
  <2>1. CASE ResetAll
    <3>1. pc = "failed"
      BY <2>1 DEF ResetAll
    <3>2. ~ApplyAll /\ 0 \in 0 .. MaxMsgs
      BY <3>1, ConstantFacts DEF ApplyAll
    <3> QED BY <2>1, <3>1, <3>2 DEF ResetAll
  <2>2. CASE ApplyAll
    BY <1>1, <2>2 DEF ApplyAll, TypeOK
  <2> QED BY <2>1, <2>2
<1>3. ASSUME NEW m \in Modules
      PROVE  /\ stores'[m] \in ModuleStores
             /\ stores'[m].store = stores[m].store
             /\ ApplyAll => /\ stores'[m].staged = stores[m].pending
                            /\ stores'[m].pending = stores[m].pending
             /\ ~ApplyAll => /\ stores'[m].staged = stores[m].staged
                             /\ stores'[m].pending = stores[m].staged
  <2> DEFINE s == stores[m]
  <2>1. s \in StoreOf(State, {0})
    BY <1>1 DEF TypeOK
  <2>2. stores'[m] = IF ApplyAll THEN StoreApply(s) ELSE StoreReset(s)
    <3>1. CASE ApplyAll
      BY <3>1 DEF ApplyAll
    <3>2. CASE ~ApplyAll
      BY <3>2 DEF ResetAll
    <3> QED BY <3>1, <3>2
  <2> HIDE DEF s
  <2>3. /\ StoreApply(s) \in StoreOf(State, {0}) /\ StoreApply(s).store = s.store
        /\ StoreApply(s).staged = s.pending /\ StoreApply(s).pending = s.pending
        /\ StoreReset(s) \in StoreOf(State, {0}) /\ StoreReset(s).store = s.store
        /\ StoreReset(s).staged = s.staged /\ StoreReset(s).pending = s.staged
    BY <2>1, SettleLemma
  <2> QED BY <2>2, <2>3 DEF s, ModuleStores
<1>4. stores' \in [Modules -> ModuleStores]
  <2>1. stores' = [m \in Modules |-> stores'[m]]
    BY DEF ResetAll, ApplyAll
  <2> QED BY <1>3, <2>1
<1>5. main' \in MainStores /\ main'.store = main.store
  <2>1. main \in MainStores
    BY <1>1 DEF TypeOK, MainStores
  <2>2. main' = StoreApply(main) \/ main' = StoreReset(main)
    BY DEF ResetAll, ApplyAll
  <2> QED BY <2>1, <2>2, SettleLemma DEF MainStores
<1>6. /\ tx \in Txs /\ status[tx] = "running" /\ landed[tx] = Height + 1
      /\ \A u \in Txs \ {tx} : status[u] # "running"
  BY <1>1, <1>2 DEF WriteInv, Running
<1>7. /\ status'[tx] = IF ApplyAll THEN "ok" ELSE "failed"
      /\ \A u \in Txs \ {tx} : status'[u] = status[u]
      /\ status' \in [Txs -> {"new", "rejected", "running", "ok", "failed"}]
  BY <1>1, <1>2, <1>6 DEF TypeOK
<1>8. TypeOK'
  BY <1>1, <1>2, <1>4, <1>5, <1>7 DEF TypeOK, ModuleStores, MainStores
<1>9. /\ Aligned' /\ Chained' /\ RootsReady' /\ next' = 1
      /\ Height' = Height /\ \A m \in Modules : Vec(m)' = Vec(m)
  BY <1>1, <1>2, <1>3, <1>5, KeepsVersions
<1>10. Cycle'
  BY <1>1, <1>2, <1>9 DEF VersionInv, Cycle
<1>11. Running' /\ Landed' /\ Untouched'
  BY <1>1, <1>2, <1>6, <1>7, <1>9 DEF WriteInv, Running, Landed, Untouched
<1>12. PendingWrites' /\ StagedWrites'
  <2> SUFFICES ASSUME NEW u \in Txs, NEW m \in Modules
               PROVE  /\ stores'[m].pending[Tx(u)] = Mark <=>
                           m \in touched[u] /\ status'[u] \in {"ok", "running"}
                      /\ stores'[m].staged[Tx(u)] = Mark <=>
                           m \in touched[u] /\ status'[u] = "ok"
    BY <1>2 DEF PendingWrites, StagedWrites
  <2>1. /\ stores[m].pending[Tx(u)] = Mark <=>
             m \in touched[u] /\ status[u] \in {"ok", "running"}
        /\ stores[m].staged[Tx(u)] = Mark <=> m \in touched[u] /\ status[u] = "ok"
    BY <1>1 DEF WriteInv, PendingWrites, StagedWrites
  <2> QED BY <1>3, <1>6, <1>7, <2>1
<1>13. VersionWrites'
  <2> SUFFICES ASSUME NEW u \in Txs, NEW m \in Modules, NEW h \in 1 .. Len(Vec(m))
               PROVE  Vec(m)[h][Tx(u)] = Mark <=>
                        m \in touched[u] /\ status'[u] = "ok" /\ h >= landed[u]
    BY <1>2, <1>9 DEF VersionWrites
  <2>1. Vec(m)[h][Tx(u)] = Mark <=> m \in touched[u] /\ status[u] = "ok" /\ h >= landed[u]
    BY <1>1 DEF WriteInv, VersionWrites
  <2>2. Len(Vec(m)) = Height /\ Height \in Nat
    BY <1>1, <1>2, HeightFacts DEF VersionInv, Aligned
  <2>3. u = tx => ~(h >= landed[u])
    BY <1>6, <2>2
  <2> QED BY <1>6, <1>7, <2>1, <2>3
<1> QED BY <1>8, <1>9, <1>10, <1>11, <1>12, <1>13 DEF IInv, VersionInv, WriteInv

\* One round of commit: the next module gets a version, the main store its root.
LEMMA CommitModuleInv ==
  ASSUME IInv, CommitModule
  PROVE  IInv'
<1>0. PICK k : k = next
  OBVIOUS
<1> DEFINE x == stores[k].pending
<1>1. TypeOK /\ VersionInv /\ WriteInv
  BY DEF IInv
<1>2. /\ pc \in {"block", "commit"} /\ pc' = "commit" /\ next' = k + 1
      /\ UNCHANGED <<tx, left, status, touched, landed>>
      /\ stores' = [stores EXCEPT ![k] = StoreCommit(stores[k])]
      /\ main' = StoreSet(main, k, RootHash(StoreCommit(stores[k])))
  BY <1>0 DEF CommitModule
<1>3. k \in Modules /\ k \in Nat /\ next' \in 1 .. NumModules + 1
  BY <1>0, <1>1, <1>2, ConstantFacts DEF CommitModule, TypeOK, Modules
<1>4. /\ StoreCommit(stores[k]) \in ModuleStores
      /\ StoreCommit(stores[k]).store = VecPush(stores[k].store, x)
      /\ StoreCommit(stores[k]).staged = x
      /\ StoreCommit(stores[k]).pending = x
      /\ RootHash(StoreCommit(stores[k])) = x
      /\ x \in State
  <2> DEFINE s == stores[k]
  <2>1. s \in StoreOf(State, {0}) /\ {0} \in SUBSET Nat /\ s.pending \in State
    BY <1>1, <1>3, ConstantFacts DEF TypeOK, StoreOf
  <2> HIDE DEF s
  <2>2. /\ StoreCommit(s) \in StoreOf(State, {0})
        /\ StoreCommit(s).store = VecPush(s.store, s.pending)
        /\ StoreCommit(s).staged = s.pending
        /\ StoreCommit(s).pending = s.pending
        /\ RootHash(StoreCommit(s)) = s.pending
    BY <2>1, CommitLemma
  <2> QED BY <2>1, <2>2 DEF s, ModuleStores
<1>5. /\ stores' \in [Modules -> ModuleStores]
      /\ stores'[k] = StoreCommit(stores[k])
      /\ \A m \in Modules \ {k} : stores'[m] = stores[m]
  BY <1>1, <1>2, <1>3, <1>4 DEF TypeOK, ModuleStores
<1>6. /\ main' \in MainStores /\ main'.store = main.store
      /\ main'.pending[k] = x
      /\ \A m \in Modules \ {k} : main'.pending[m] = main.pending[m]
  <2>1. main \in StoreOf([Modules -> Roots], {0}) /\ x \in Roots
    BY <1>1, <1>4 DEF TypeOK, Roots
  <2>2. main' = StoreSet(main, k, x)
    BY <1>2, <1>4
  <2> HIDE DEF x
  <2>3. /\ main' \in MainStores /\ main'.store = main.store
        /\ main'.pending = [main.pending EXCEPT ![k] = x]
        /\ main.pending \in [Modules -> Roots]
    BY <1>3, <2>1, <2>2 DEF StoreSet, StoreOf, MainStores
  <2> QED BY <1>3, <2>3
<1>7. /\ Height \in Nat /\ Height' = Height /\ MainVec' = MainVec
      /\ \A m \in Modules \ {k} : Vec(m)' = Vec(m)
      /\ Vec(k)' = Append(Vec(k), x)
  <2>1. VecPush(stores[k].store, x).vec = Append(stores[k].store.vec, x)
    BY <1>1, <1>3 DEF VecPush, TypeOK, StoreOf, VecOf
  <2> QED BY <1>1, <1>4, <1>5, <1>6, <2>1, HeightFacts DEF Height, MainVec, Vec
<1>8. \A m \in Modules : /\ m < k => pc = "commit"
                         /\ m < k + 1 <=> m < k \/ m = k
                         /\ m \in Nat
  BY <1>0, <1>1, <1>2, <1>3, ConstantFacts DEF VersionInv, Cycle, Modules
<1>9. Len(Vec(k)) = Height
  BY <1>0, <1>1, <1>3, <1>7 DEF VersionInv, Aligned
<1>10. /\ Vec(k) \in Seq(State) /\ Len(Vec(k)') = Height + 1 /\ Vec(k)'[Height + 1] = x
       /\ \A h \in 1 .. Height : Vec(k)'[h] = Vec(k)[h]
  <2>1. Vec(k) \in Seq(State)
    BY <1>1, <1>3, HeightFacts
  <2> DEFINE V == Vec(k)
             W == Append(V, x)
  <2> HIDE DEF V, x
  <2>2. V \in Seq(State) /\ Len(V) = Height
    BY <1>9, <2>1 DEF V
  <2>3. /\ Len(W) = Height + 1 /\ W[Height + 1] = x
        /\ \A h \in 1 .. Height : W[h] = V[h]
    BY <1>4, <1>7, <2>2
  <2> QED BY <1>7, <2>1, <2>3 DEF V
<1> HIDE DEF x
<1>11. TypeOK'
  BY <1>1, <1>2, <1>3, <1>5, <1>6 DEF TypeOK, ModuleStores, MainStores
<1>12. Aligned'
  <2> SUFFICES ASSUME NEW m \in Modules
               PROVE  Len(Vec(m)') = Height + (IF m < k + 1 THEN 1 ELSE 0)
    BY <1>2, <1>7 DEF Aligned
  <2>1. CASE m = k
    BY <1>8, <1>10, <2>1
  <2>2. CASE m # k
    <3>1. Len(Vec(m)) = Height + (IF pc = "commit" /\ m < k THEN 1 ELSE 0)
      BY <1>0, <1>1 DEF VersionInv, Aligned
    <3> QED BY <1>7, <1>8, <2>2, <3>1
  <2> QED BY <2>1, <2>2
<1>13. Chained'
  <2> SUFFICES ASSUME NEW h \in 1 .. Height, NEW m \in Modules
               PROVE  MainVec[h][m] = Vec(m)'[h]
    BY <1>7 DEF Chained
  <2> QED BY <1>1, <1>7, <1>10 DEF VersionInv, Chained
<1>14. RootsReady'
  <2> SUFFICES ASSUME NEW m \in Modules, m < k + 1
               PROVE  main'.pending[m] = Vec(m)'[Height + 1]
    BY <1>2, <1>7 DEF RootsReady
  <2>1. CASE m = k
    BY <1>6, <1>10, <2>1
  <2>2. CASE m # k
    <3>1. m < k /\ pc = "commit"
      BY <1>8, <2>2
    <3> QED BY <1>0, <1>1, <1>6, <1>7, <2>2, <3>1 DEF VersionInv, RootsReady
  <2> QED BY <2>1, <2>2
<1>15. Cycle'
  BY <1>1, <1>2, <1>7 DEF VersionInv, Cycle
<1>16. \A t \in Txs : status[t] # "running"
  BY <1>1, <1>2 DEF WriteInv, Running
<1>17. Running' /\ Landed' /\ Untouched'
  BY <1>1, <1>2, <1>7, <1>16 DEF WriteInv, Running, Landed, Untouched
<1>18. \A t \in Txs, m \in Modules :
         /\ stores[m].pending[Tx(t)] = Mark <=> m \in touched[t] /\ status[t] = "ok"
         /\ stores[m].staged[Tx(t)] = Mark <=> m \in touched[t] /\ status[t] = "ok"
  BY <1>1, <1>16 DEF WriteInv, PendingWrites, StagedWrites
<1>19. PendingWrites' /\ StagedWrites'
  <2> SUFFICES ASSUME NEW t \in Txs, NEW m \in Modules
               PROVE  /\ stores'[m].pending[Tx(t)] = Mark <=>
                           m \in touched[t] /\ status[t] \in {"ok", "running"}
                      /\ stores'[m].staged[Tx(t)] = Mark <=> m \in touched[t] /\ status[t] = "ok"
    BY <1>2 DEF PendingWrites, StagedWrites
  <2> QED BY <1>4, <1>5, <1>16, <1>18 DEF x
<1>20. VersionWrites'
  <2> SUFFICES ASSUME NEW t \in Txs, NEW m \in Modules, NEW h \in 1 .. Len(Vec(m)')
               PROVE  Vec(m)'[h][Tx(t)] = Mark <=>
                        m \in touched[t] /\ status[t] = "ok" /\ h >= landed[t]
    BY <1>2 DEF VersionWrites
  <2>1. \A g \in 1 .. Len(Vec(m)) : Vec(m)[g][Tx(t)] = Mark <=>
                        m \in touched[t] /\ status[t] = "ok" /\ g >= landed[t]
    BY <1>1 DEF WriteInv, VersionWrites
  <2>2. CASE m # k
    BY <1>7, <2>1, <2>2
  <2>3. CASE m = k /\ h = Height + 1
    <3>1. landed[t] <= h
      BY <1>1, <2>3 DEF WriteInv, Landed
    <3>2. landed[t] \in Nat
      BY <1>1, ConstantFacts DEF TypeOK
    <3>3. x[Tx(t)] = Mark <=> k \in touched[t] /\ status[t] = "ok"
      BY <1>3, <1>18 DEF x
    <3> QED BY <1>7, <1>10, <2>3, <3>1, <3>2, <3>3
  <2>4. CASE m = k /\ h # Height + 1
    <3>1. h \in 1 .. Height
      BY <1>7, <1>10, <2>4
    <3> QED BY <1>9, <1>10, <2>1, <2>4, <3>1
  <2> QED BY <2>2, <2>3, <2>4
<1> QED BY <1>11, <1>12, <1>13, <1>14, <1>15, <1>17, <1>19, <1>20
        DEF IInv, VersionInv, WriteInv

\* The end of commit: the main store gets the version with all the roots.
LEMMA CommitMainInv ==
  ASSUME IInv, CommitMain
  PROVE  IInv'
<1> DEFINE x == main.pending
<1>1. TypeOK /\ VersionInv /\ WriteInv
  BY DEF IInv
<1>2. /\ pc = "commit" /\ pc' = "idle" /\ next = NumModules + 1 /\ next' = 1
      /\ main' = StoreCommit(main)
      /\ UNCHANGED <<stores, tx, left, status, touched, landed>>
  BY DEF CommitMain
<1>3. /\ main' \in MainStores /\ MainVec' = Append(MainVec, x) /\ x \in [Modules -> Roots]
  <2> DEFINE R == [Modules -> Roots]
  <2>1. main \in StoreOf(R, {0}) /\ {0} \in SUBSET Nat /\ x \in R
    BY <1>1, ConstantFacts DEF TypeOK, StoreOf
  <2> HIDE DEF R
  <2>2. StoreCommit(main) \in StoreOf(R, {0}) /\ StoreCommit(main).store = VecPush(main.store, x)
    BY <2>1, CommitLemma
  <2>3. VecPush(main.store, x).vec = Append(main.store.vec, x)
    BY <2>1 DEF VecPush, StoreOf, VecOf
  <2> QED BY <1>2, <2>1, <2>2, <2>3 DEF R, MainStores, MainVec
<1>4. MainVec \in Seq([Modules -> Roots]) /\ Height \in Nat
  BY <1>1, HeightFacts
<1>5. /\ Height' = Height + 1 /\ MainVec'[Height + 1] = x
      /\ \A h \in 1 .. Height : MainVec'[h] = MainVec[h]
      /\ \A m \in Modules : Vec(m)' = Vec(m)
  BY <1>2, <1>3, <1>4 DEF Height, Vec
<1>6. \A m \in Modules : m < next
  BY <1>2, ConstantFacts DEF Modules
<1> HIDE DEF x
<1>7. TypeOK'
  <2>1. 1 \in 1 .. NumModules + 1
    BY ConstantFacts
  <2> QED BY <1>1, <1>2, <1>3, <2>1 DEF TypeOK, MainStores
<1>8. Aligned'
  BY <1>1, <1>2, <1>4, <1>5, <1>6 DEF VersionInv, Aligned
<1>9. Chained'
  <2> SUFFICES ASSUME NEW h \in 1 .. Height + 1, NEW m \in Modules
               PROVE  MainVec'[h][m] = Vec(m)[h]
    BY <1>5 DEF Chained
  <2>1. CASE h = Height + 1
    BY <1>1, <1>2, <1>5, <1>6, <2>1 DEF VersionInv, RootsReady, x
  <2>2. CASE h # Height + 1
    <3>1. h \in 1 .. Height
      BY <1>4, <2>2
    <3> QED BY <1>1, <1>5, <3>1 DEF VersionInv, Chained
  <2> QED BY <2>1, <2>2
<1>10. RootsReady' /\ Cycle'
  BY <1>2 DEF RootsReady, Cycle
<1>11. Running' /\ Untouched'
  BY <1>1, <1>2 DEF WriteInv, Running, Untouched
<1>12. Landed'
  <2>1. \A t \in Txs : landed[t] \in Nat
    BY <1>1, ConstantFacts DEF TypeOK
  <2> QED BY <1>1, <1>2, <1>4, <1>5, <2>1 DEF WriteInv, Landed
<1>13. PendingWrites' /\ StagedWrites'
  BY <1>1, <1>2 DEF WriteInv, PendingWrites, StagedWrites
<1>14. VersionWrites'
  BY <1>1, <1>2, <1>5 DEF WriteInv, VersionWrites
<1> QED BY <1>7, <1>8, <1>9, <1>10, <1>11, <1>12, <1>13, <1>14
        DEF IInv, VersionInv, WriteInv

\* Every step of the block cycle keeps the invariant.
LEMMA StepInv == IInv /\ [Next]_vars => IInv'
<1> SUFFICES ASSUME IInv, [Next]_vars PROVE IInv'
  OBVIOUS
<1>1. CASE InitChain
  <2>1. InitWrites \in SUBSET Modules
    BY AppAssumption
  <2> QED BY <1>1, <2>1, BlockWriteInv, WriterFacts DEF InitChain
<1>2. CASE BeginBlock
  <2>1. PICK W \in SUBSET BeginWrites : stores' = Written(W, Begin(Block))
    BY <1>2 DEF BeginBlock
  <2>2. W \in SUBSET Modules
    BY AppAssumption
  <2>3. Height < MaxHeight /\ Block \in 1 .. MaxHeight
    BY <1>2, HeightFacts, ConstantFacts DEF BeginBlock, Block, IInv
  <2>4. Begin(Block) \in Writers /\ \A t \in Txs : Tx(t) # Begin(Block)
    BY <2>3, WriterFacts
  <2> QED BY <1>2, <2>1, <2>2, <2>3, <2>4, BlockWriteInv DEF BeginBlock
<1>3. ASSUME NEW t \in Txs, RejectTx(t) \/ DeliverTx(t) PROVE IInv'
  BY <1>3, EnterInv
<1>4. CASE MsgOk \/ MsgErr \/ MsgPanics
  <2>0. PICK m \in Modules : \E W \in SUBSET Intercepted(m) :
          /\ stores' = Written(W, Tx(tx))
          /\ touched' = [touched EXCEPT ![tx] = @ \cup W]
    BY <1>4 DEF MsgOk, MsgErr, MsgPanics
  <2>1. PICK W \in SUBSET Intercepted(m) :
          /\ stores' = Written(W, Tx(tx))
          /\ touched' = [touched EXCEPT ![tx] = @ \cup W]
    BY <2>0
  <2>2. Intercepted(m) \subseteq Modules
    <3>1. \A i \in 1 .. m : i \in Modules
      BY ConstantFacts DEF Modules
    <3> QED BY <3>1, AppAssumption DEF Intercepted
  <2>3. W \in SUBSET Modules
    BY <2>1, <2>2
  <2>4. left' \in 0 .. MaxMsgs /\ pc = "msgs" /\ pc' \in {"msgs", "failed", "panicked"}
        /\ UNCHANGED <<main, tx, next, status, landed>>
    BY <1>4, ConstantFacts DEF MsgOk, MsgErr, MsgPanics, IInv, TypeOK
  <2> QED BY <2>1, <2>3, <2>4, MessageInv
<1>5. CASE ResetAll \/ ApplyAll
  BY <1>5, SettleInv
<1>6. CASE CommitModule
  BY <1>6, CommitModuleInv
<1>7. CASE CommitMain
  BY <1>7, CommitMainInv
<1>8. CASE UNCHANGED vars
  <2>1. UNCHANGED <<stores, main, pc, tx, left, next, status, touched, landed>>
    BY <1>8 DEF vars
  <2>2. Height' = Height /\ MainVec' = MainVec /\ \A m \in Modules : Vec(m)' = Vec(m)
    BY <2>1 DEF Height, MainVec, Vec
  <2>3. TypeOK'
    BY <2>1 DEF IInv, TypeOK
  <2>4. VersionInv'
    BY <2>1, <2>2 DEF IInv, VersionInv, Aligned, Chained, RootsReady, Cycle
  <2>5. Running' /\ Landed' /\ Untouched' /\ PendingWrites' /\ StagedWrites'
    BY <2>1, <2>2 DEF IInv, WriteInv, Running, Landed, Untouched, PendingWrites, StagedWrites
  <2>6. VersionWrites'
    BY <2>1, <2>2 DEF IInv, WriteInv, VersionWrites
  <2> QED BY <2>3, <2>4, <2>5, <2>6 DEF IInv, WriteInv
<1> QED BY <1>1, <1>2, <1>3, <1>4, <1>5, <1>6, <1>7, <1>8 DEF Next

\* The invariant holds in every reachable state.
LEMMA Invariance == Spec => []IInv
  BY InitInv, StepInv, PTL DEF Spec

-----------------------------------------------------------------------------
\* The stores and the bookkeeping of the block cycle keep their types.
THEOREM TypeCorrect == Spec => []TypeOK
<1>1. IInv => TypeOK
  BY DEF IInv
<1> QED BY <1>1, Invariance, PTL

\* Module stores and main store count the same blocks outside of commit.
THEOREM StoresInLockstep == Spec => []Lockstep
<1>1. IInv => Lockstep
  BY HeightFacts DEF IInv, VersionInv, Aligned, Lockstep
<1> QED BY <1>1, Invariance, PTL

\* At every height of the main store, each module's root is the one its store
\* has at that height: the two-level proof of a query fits together.
THEOREM ProofsChain == Spec => []ProofChain
<1>1. IInv => ProofChain
  <2> SUFFICES ASSUME IInv, NEW h \in 1 .. CurrentHeight(main), NEW m \in Modules
               PROVE  /\ GetState(stores[m], Stable(h)) # None
                      /\ StoreGet(main, Stable(h), m) = GetState(stores[m], Stable(h))
    BY DEF ProofChain
  <2>1. TypeOK /\ Aligned /\ Chained
    BY DEF IInv, VersionInv
  <2>2. /\ h \in 1 .. Height /\ Height \in Nat
        /\ Len(Vec(m)) = Height + (IF pc = "commit" /\ m < next THEN 1 ELSE 0)
    BY <2>1, HeightFacts DEF Aligned
  <2>3. h \in 1 .. Len(Vec(m))
    BY <2>2
  <2>4. /\ GetState(main, Stable(h)) = MainVec[h] /\ MainVec[h] # None
        /\ GetState(stores[m], Stable(h)) = Vec(m)[h] /\ Vec(m)[h] # None
    BY <2>1, <2>2, <2>3, VersionFacts, ConstantFacts
  <2>5. StoreGet(main, Stable(h), m) = MainVec[h][m]
    BY <2>4 DEF StoreGet
  <2> QED BY <2>1, <2>2, <2>4, <2>5 DEF Chained
<1> QED BY <1>1, Invariance, PTL

\* Every committed version of a store a transaction has written to has its
\* writes exactly if it succeeded and the version is not older.
THEOREM TransactionsAreAtomic == Spec => []TxAtomic
<1>1. IInv => TxAtomic
  <2> SUFFICES ASSUME IInv, NEW t \in Txs, NEW m \in touched[t],
                      NEW h \in 1 .. CurrentHeight(stores[m])
               PROVE  StoreGet(stores[m], Stable(h), Tx(t)) = Mark
                        <=> status[t] = "ok" /\ h >= landed[t]
    BY DEF TxAtomic
  <2>1. TypeOK /\ VersionWrites
    BY DEF IInv, WriteInv
  <2>2. m \in Modules
    BY <2>1 DEF TypeOK
  <2>3. h \in 1 .. Len(Vec(m))
    BY <2>1, <2>2, HeightFacts
  <2>4. GetState(stores[m], Stable(h)) = Vec(m)[h] /\ Vec(m)[h] # None
    BY <2>1, <2>2, <2>3, VersionFacts, ConstantFacts
  <2>5. StoreGet(stores[m], Stable(h), Tx(t)) = Vec(m)[h][Tx(t)]
    BY <2>4 DEF StoreGet
  <2> QED BY <2>1, <2>2, <2>3, <2>5 DEF VersionWrites
<1> QED BY <1>1, Invariance, PTL

\* A failed transaction has left nothing in any pending state.
THEOREM FailuresLeaveNoTrace == Spec => []NoTrace
<1>1. IInv => NoTrace
  <2> SUFFICES ASSUME IInv, NEW t \in Txs, status[t] = "failed", NEW m \in Modules
               PROVE  stores[m].pending[Tx(t)] = None
    BY DEF NoTrace
  <2>1. stores[m].pending[Tx(t)] # Mark
    BY DEF IInv, WriteInv, PendingWrites
  <2>2. stores[m].pending \in [Writers -> {Mark, None}] /\ Tx(t) \in Writers
    BY WriterFacts DEF IInv, TypeOK, StoreOf, State
  <2> QED BY <2>1, <2>2
<1> QED BY <1>1, Invariance, PTL

-----------------------------------------------------------------------------
(* Queries                                                                 *)

\* The height a raw height stands for.
Asked(raw) == IF raw = 0 THEN Height ELSE raw

\* Between two handlers every store has the versions 1 .. Height, the main
\* store holds the root of each, and other heights read nothing.
LEMMA ReadFacts ==
  ASSUME IInv, pc # "commit", NEW raw \in Nat
  PROVE  /\ GetState(main, HeightFrom(raw)) = GetState(main, Stable(Asked(raw)))
         /\ GetState(main, Stable(Asked(raw))) = None <=> Asked(raw) \notin 1 .. Height
         /\ \A m \in Modules :
              /\ GetState(stores[m], HeightFrom(raw)) = GetState(stores[m], Stable(Asked(raw)))
              /\ GetState(stores[m], Stable(Asked(raw))) = None <=> Asked(raw) \notin 1 .. Height
              /\ Asked(raw) \in 1 .. Height =>
                   /\ GetState(main, Stable(Asked(raw)))[m] = GetState(stores[m], Stable(Asked(raw)))
                   /\ GetState(stores[m], Stable(Asked(raw))) = Vec(m)[Asked(raw)]
<1> DEFINE h == Asked(raw)
<1>1. TypeOK /\ Aligned /\ Chained
  BY DEF IInv, VersionInv
<1>2. Height \in Nat /\ h \in Nat /\ \A m \in Modules : Len(Vec(m)) = Height
  BY <1>1, HeightFacts DEF Aligned, Asked
<1>3. ASSUME NEW S, None \notin S, NEW s \in StoreOf(S, {0}), Len(s.store.vec) = Height
      PROVE  /\ GetState(s, HeightFrom(raw)) = GetState(s, Stable(h))
             /\ GetState(s, Stable(h)) = None <=> h \notin 1 .. Height
  <2>1. s.store.pruned = 0 /\ s.store.vec \in Seq(S)
    BY <1>3 DEF StoreOf, VecOf
  <2>2. GetState(s, Latest) = IF Height = 0 THEN None ELSE s.store.vec[Height]
    <3>1. s.store.vec = <<>> <=> Height = 0
      BY <1>2, <1>3, <2>1
    <3> QED BY <1>3, <3>1 DEF GetState, Latest, VecLast
  <2>3. \A g \in Nat : GetState(s, Stable(g)) = IF g \in 1 .. Height THEN s.store.vec[g] ELSE None
    BY <1>2, <1>3, <2>1 DEF GetState, Stable, VecGet
  <2>4. \A g \in 1 .. Height : s.store.vec[g] # None
    BY <1>2, <1>3, <2>1
  <2>5. GetState(s, Stable(h)) = None <=> h \notin 1 .. Height
    <3> HIDE DEF h
    <3> QED BY <1>2, <2>3, <2>4
  <2>6. GetState(s, HeightFrom(raw)) = GetState(s, Stable(h))
    <3>1. CASE raw = 0
      BY <1>2, <2>2, <2>3, <3>1 DEF HeightFrom, Asked
    <3>2. CASE raw # 0
      BY <3>2 DEF HeightFrom, Asked
    <3> QED BY <3>1, <3>2
  <2> QED BY <2>5, <2>6
<1>4. /\ main \in StoreOf([Modules -> Roots], {0}) /\ Len(main.store.vec) = Height
      /\ \A m \in Modules : stores[m] \in StoreOf(State, {0}) /\ Len(stores[m].store.vec) = Height
  BY <1>1, <1>2 DEF TypeOK, Height, MainVec, Vec
<1>5. /\ GetState(main, HeightFrom(raw)) = GetState(main, Stable(h))
      /\ GetState(main, Stable(h)) = None <=> h \notin 1 .. Height
  <2> DEFINE R == [Modules -> Roots]
  <2>1. None \notin R /\ main \in StoreOf(R, {0})
    BY <1>4, ConstantFacts
  <2> HIDE DEF R, h
  <2> QED BY <1>3, <1>4, <2>1
<1>6. ASSUME NEW m \in Modules
      PROVE  /\ GetState(stores[m], HeightFrom(raw)) = GetState(stores[m], Stable(h))
             /\ GetState(stores[m], Stable(h)) = None <=> h \notin 1 .. Height
             /\ h \in 1 .. Height => /\ GetState(main, Stable(h))[m] = GetState(stores[m], Stable(h))
                                     /\ GetState(stores[m], Stable(h)) = Vec(m)[h]
  <2> DEFINE s == stores[m]
  <2>1. s \in StoreOf(State, {0}) /\ Len(s.store.vec) = Height
    BY <1>4
  <2>2. /\ GetState(s, HeightFrom(raw)) = GetState(s, Stable(h))
        /\ GetState(s, Stable(h)) = None <=> h \notin 1 .. Height
    <3> HIDE DEF s, h
    <3> QED BY <1>3, <2>1, ConstantFacts
  <2>3. ASSUME h \in 1 .. Height
        PROVE  /\ GetState(main, Stable(h))[m] = GetState(stores[m], Stable(h))
               /\ GetState(stores[m], Stable(h)) = Vec(m)[h]
    <3> HIDE DEF h
    <3> QED BY <1>1, <1>2, <2>3, VersionFacts DEF Chained
  <2> QED BY <2>2, <2>3
<1> QED BY <1>5, <1>6

\* What a query with proof comes to, module answer and proof of the root.
LEMMA QueryEntry ==
  ASSUME NEW m \in Proving \cup Plain, NEW raw, NEW w
  PROVE  LET height == HeightFrom(raw)
             data == StoreGet(stores[m], height, w)
             version == GetState(stores[m], height)
         IN  Query(m, "entry", raw, w, TRUE) =
               IF m \in Proving /\ (data = None \/ version = None) THEN Error
               ELSE IF GetState(main, height) = None THEN Panics
               ELSE [kind |-> "ok", data |-> data,
                     root |-> IF m \in Proving THEN version ELSE None,
                     shown |-> StoreGet(main, height, m), at |-> GetState(main, height),
                     height |-> CurrentHeight(main)]
<1> DEFINE height == HeightFrom(raw)
           data == StoreGet(stores[m], height, w)
           version == GetState(stores[m], height)
           root == IF m \in Proving THEN version ELSE None
           ok == [kind |-> "ok", data |-> data, root |-> root]
<1>1. Answer(m, "entry", height, w, TRUE) =
        IF m \in Proving /\ (data = None \/ version = None) THEN Error ELSE ok
  BY RequestAssumption DEF Answer, QueryProving, QueryPlain
<1>2. ok # Error
  <2>1. ok.kind = "ok" /\ Error.kind = "error"
    BY DEF Error
  <2> QED BY <2>1
<1>3. ok.data = data /\ ok.root = root
  OBVIOUS
<1> HIDE DEF height, data, version, root, ok
<1> QED BY <1>1, <1>2, <1>3 DEF Query, height, data, version, root

LEMMA QueryPending ==
  ASSUME NEW m \in Current, NEW raw, NEW w
  PROVE  LET height == HeightFrom(raw)
             data == StoreGet(stores[m], Pending, w)
         IN  Query(m, "current", raw, w, TRUE) =
               IF data = None THEN Error
               ELSE IF GetState(main, height) = None THEN Panics
               ELSE [kind |-> "ok", data |-> data, root |-> None,
                     shown |-> StoreGet(main, height, m), at |-> GetState(main, height),
                     height |-> CurrentHeight(main)]
<1> DEFINE height == HeightFrom(raw)
           data == StoreGet(stores[m], Pending, w)
           ok == [kind |-> "ok", data |-> data, root |-> None]
<1>1. Answer(m, "current", height, w, TRUE) = IF data = None THEN Error ELSE ok
  BY DEF Answer, QueryCurrent
<1>2. ok # Error
  <2>1. ok.kind = "ok" /\ Error.kind = "error"
    BY DEF Error
  <2> QED BY <2>1
<1>3. ok.data = data /\ ok.root = None
  OBVIOUS
<1> HIDE DEF height, data, ok
<1> QED BY <1>1, <1>2, <1>3 DEF Query, height, data

\* Other modules do not answer.
LEMMA QueryNone ==
  ASSUME NEW m, NEW ask \in Asks, NEW raw, NEW w,
         ask = "entry" => m \notin Proving \cup Plain, ask = "current" => m \notin Current
  PROVE  Query(m, ask, raw, w, TRUE) = Error
<1>1. ask = "entry" \/ ask = "current"
  BY DEF Asks
<1>2. Answer(m, ask, HeightFrom(raw), w, TRUE) = Error
  BY <1>1 DEF Answer
<1> QED BY <1>2 DEF Query

\* The answers of a query are told apart by their kind.
LEMMA KindFacts ==
  /\ Error.kind = "error" /\ Panics.kind = "panic" /\ Error # Panics
<1>1. Error.kind = "error" /\ Panics.kind = "panic"
  BY DEF Error, Panics
<1> QED BY <1>1

\* What QueriesVerify says of one query.
Verified(m, ask, raw, w) ==
  LET answer == Query(m, ask, raw, w, TRUE)
      h == Asked(raw)
  IN  /\ answer = Panics <=>
           /\ h \notin 1 .. Height
           /\ \/ ask = "entry" /\ m \in Plain
              \/ ask = "current" /\ m \in Current /\ stores[m].pending[w] # None
      /\ answer.kind = "ok" =>
           /\ answer.at = GetState(main, Stable(h))
           /\ raw = 0 => answer.height = h /\ answer.at = Info.root
           /\ ask = "entry" =>
                /\ answer.data = StoreGet(stores[m], Stable(h), w)
                /\ m \in Proving => /\ answer.root = answer.shown
                                    /\ answer.root[w] = answer.data

\* The latest version of the main store is the one that info reports.
LEMMA LatestIsInfo ==
  ASSUME NEW raw, raw = 0
  PROVE  GetState(main, HeightFrom(raw)) = Info.root
  BY DEF HeightFrom, Info, RootHash

\* A query for an entry, between two handlers.
LEMMA EntryVerified ==
  ASSUME IInv, Serving, NEW m \in Proving \cup Plain,
         NEW raw \in 0 .. MaxHeight + 1, NEW w \in Writers
  PROVE  Verified(m, "entry", raw, w)
<1> DEFINE h == Asked(raw)
           version == GetState(stores[m], Stable(h))
           at == GetState(main, Stable(h))
           data == StoreGet(stores[m], Stable(h), w)
           shown == StoreGet(main, Stable(h), m)
           ok == [kind |-> "ok", data |-> data,
                  root |-> IF m \in Proving THEN version ELSE None,
                  shown |-> shown, at |-> at, height |-> CurrentHeight(main)]
           answer == Query(m, "entry", raw, w, TRUE)
<1>1. TypeOK /\ pc # "commit" /\ raw \in Nat /\ m \in Modules
  BY ConstantFacts, RequestAssumption DEF IInv, Serving
<1>2. CurrentHeight(main) = Height /\ (raw = 0 => h = Height)
  BY <1>1, HeightFacts DEF Asked
<1>3. /\ GetState(main, HeightFrom(raw)) = at
      /\ at = None <=> h \notin 1 .. Height
      /\ GetState(stores[m], HeightFrom(raw)) = version
      /\ version = None <=> h \notin 1 .. Height
      /\ h \in 1 .. Height => at[m] = version
  BY <1>1, ReadFacts
<1>4. /\ StoreGet(stores[m], HeightFrom(raw), w) = data
      /\ StoreGet(main, HeightFrom(raw), m) = shown
      /\ version # None => data = version[w]
      /\ at # None => shown = at[m]
  BY <1>3 DEF StoreGet
<1>5. answer = IF m \in Proving /\ (data = None \/ version = None) THEN Error
               ELSE IF at = None THEN Panics ELSE ok
  <2>1. Query(m, "entry", raw, w, TRUE) =
          IF m \in Proving /\ (data = None \/ version = None) THEN Error
          ELSE IF at = None THEN Panics ELSE ok
    BY <1>3, <1>4, QueryEntry
  <2> QED BY <2>1
<1>6. /\ ok.kind = "ok" /\ ok.data = data /\ ok.root = IF m \in Proving THEN version ELSE None
      /\ ok.shown = shown /\ ok.at = at /\ ok.height = CurrentHeight(main)
  OBVIOUS
<1>7. m \in Proving <=> m \notin Plain
  BY RequestAssumption
<1>8. raw = 0 => at = Info.root
  BY <1>3, LatestIsInfo
<1> HIDE DEF h, version, at, data, shown, ok, answer
<1>9. answer = Panics <=> m \in Plain /\ h \notin 1 .. Height
  BY <1>3, <1>5, <1>6, <1>7, KindFacts
<1>10. answer.kind = "ok" => answer = ok /\ at # None /\ (m \in Proving => version # None)
  BY <1>3, <1>5, KindFacts
<1>11. answer.kind = "ok" =>
         /\ answer.data = data
         /\ answer.at = at
         /\ raw = 0 => answer.height = h /\ answer.at = Info.root
         /\ m \in Proving => /\ answer.root = answer.shown
                             /\ answer.root[w] = answer.data
  BY <1>2, <1>3, <1>4, <1>6, <1>8, <1>10
<1> QED BY <1>9, <1>11 DEF Verified, h, version, at, data, answer

\* A query for what is current.
LEMMA CurrentVerified ==
  ASSUME IInv, Serving, NEW m \in Current,
         NEW raw \in 0 .. MaxHeight + 1, NEW w \in Writers
  PROVE  Verified(m, "current", raw, w)
<1> DEFINE h == Asked(raw)
           at == GetState(main, Stable(h))
           data == stores[m].pending[w]
           shown == StoreGet(main, HeightFrom(raw), m)
           ok == [kind |-> "ok", data |-> data, root |-> None,
                  shown |-> shown, at |-> at, height |-> CurrentHeight(main)]
           answer == Query(m, "current", raw, w, TRUE)
<1>1. TypeOK /\ pc # "commit" /\ raw \in Nat /\ m \in Modules
  BY ConstantFacts, RequestAssumption DEF IInv, Serving
<1>2. CurrentHeight(main) = Height /\ (raw = 0 => h = Height)
  BY <1>1, HeightFacts DEF Asked
<1>3. /\ GetState(main, HeightFrom(raw)) = at
      /\ at = None <=> h \notin 1 .. Height
  BY <1>1, ReadFacts
<1>4. StoreGet(stores[m], Pending, w) = data
  <2>1. stores[m].pending \in State
    BY <1>1 DEF TypeOK, StoreOf
  <2>2. stores[m].pending # None
    BY <2>1, ConstantFacts
  <2> QED BY <2>2 DEF StoreGet, GetState, Pending
<1>5. answer = IF data = None THEN Error ELSE IF at = None THEN Panics ELSE ok
  <2>1. Query(m, "current", raw, w, TRUE) =
          IF data = None THEN Error ELSE IF at = None THEN Panics ELSE ok
    BY <1>3, <1>4, QueryPending
  <2> QED BY <2>1
<1>6. ok.kind = "ok" /\ ok.at = at /\ ok.height = CurrentHeight(main)
  OBVIOUS
<1>7. raw = 0 => at = Info.root
  BY <1>3, LatestIsInfo
<1> HIDE DEF h, at, data, shown, ok, answer
<1>8. answer = Panics <=> h \notin 1 .. Height /\ data # None
  BY <1>3, <1>5, <1>6, KindFacts
<1>9. answer.kind = "ok" =>
        answer.at = at /\ (raw = 0 => answer.height = h /\ answer.at = Info.root)
  BY <1>2, <1>5, <1>6, <1>7, KindFacts
<1> QED BY <1>8, <1>9 DEF Verified, h, at, data, answer

\* Every query between two handlers of the application, in one state.
LEMMA QueriesVerifyInv == IInv => QueriesVerify
<1> SUFFICES ASSUME IInv PROVE QueriesVerify
  OBVIOUS
<1>1. CurrentHeight(main) = Height
  BY HeightFacts DEF IInv
<1>2. ASSUME Serving, NEW m \in Modules, NEW ask \in Asks,
             NEW raw \in 0 .. MaxHeight + 1, NEW w \in Writers
      PROVE  Verified(m, ask, raw, w)
  <2>1. CASE ask = "entry" /\ m \in Proving \cup Plain
    BY <1>2, <2>1, EntryVerified
  <2>2. CASE ask = "current" /\ m \in Current
    BY <1>2, <2>2, CurrentVerified
  <2>3. CASE /\ ask = "entry" => m \notin Proving \cup Plain
             /\ ask = "current" => m \notin Current
    <3>1. Query(m, ask, raw, w, TRUE) = Error
      BY <2>3, QueryNone
    <3> QED BY <2>3, <3>1, KindFacts DEF Verified
  <2> QED BY <2>1, <2>2, <2>3 DEF Asks
<1>3. SUFFICES ASSUME Serving, NEW m \in Modules, NEW ask \in Asks,
                      NEW raw \in 0 .. MaxHeight + 1, NEW w \in Writers
               PROVE  LET answer == Query(m, ask, raw, w, TRUE)
                          h == IF raw = 0 THEN CurrentHeight(main) ELSE raw
                      IN  /\ answer = Panics <=>
                               /\ h \notin 1 .. CurrentHeight(main)
                               /\ \/ ask = "entry" /\ m \in Plain
                                  \/ /\ ask = "current" /\ m \in Current
                                     /\ stores[m].pending[w] # None
                          /\ answer.kind = "ok" =>
                               /\ answer.at = GetState(main, Stable(h))
                               /\ raw = 0 => answer.height = h /\ answer.at = Info.root
                               /\ ask = "entry" =>
                                    /\ answer.data = StoreGet(stores[m], Stable(h), w)
                                    /\ m \in Proving => /\ answer.root = answer.shown
                                                        /\ answer.root[w] = answer.data
  BY DEF QueriesVerify
<1>4. Verified(m, ask, raw, w)
  BY <1>2, <1>3
<1> QED BY <1>1, <1>4 DEF Verified, Asked

\* What was written by a transaction, as a query finds it.
LEMMA TxProvableInv == IInv => TxProvable
<1> SUFFICES ASSUME IInv, Serving, NEW t \in Txs, NEW m \in touched[t] \cap Proving,
                    NEW h \in 1 .. MaxHeight
             PROVE  Query(m, "entry", h, Tx(t), TRUE) # Error
                      <=> status[t] = "ok" /\ h \in landed[t] .. CurrentHeight(main)
  BY DEF TxProvable
<1> DEFINE version == GetState(stores[m], Stable(h))
           data == StoreGet(stores[m], Stable(h), Tx(t))
<1>1. TypeOK /\ Aligned /\ VersionWrites /\ pc # "commit" /\ h \in Nat /\ h # 0
      /\ m \in Modules /\ m \in touched[t] /\ m \in Proving
  BY ConstantFacts, RequestAssumption DEF IInv, VersionInv, WriteInv, Serving
<1>2. CurrentHeight(main) = Height /\ Height \in Nat /\ Len(Vec(m)) = Height
  BY <1>1, HeightFacts DEF Aligned
<1>3. landed[t] \in Nat
  BY <1>1 DEF TypeOK
<1>4. /\ GetState(main, HeightFrom(h)) = None <=> h \notin 1 .. Height
      /\ GetState(stores[m], HeightFrom(h)) = version
      /\ version = None <=> h \notin 1 .. Height
      /\ h \in 1 .. Height => version = Vec(m)[h]
  BY <1>1, ReadFacts DEF Asked
<1>5. StoreGet(stores[m], HeightFrom(h), Tx(t)) = data
  BY <1>4 DEF StoreGet
<1>6. data # None <=> h \in 1 .. Height /\ Vec(m)[h][Tx(t)] = Mark
  <2>1. CASE h \notin 1 .. Height
    BY <2>1, <1>4 DEF StoreGet
  <2>2. CASE h \in 1 .. Height
    <3>1. data = Vec(m)[h][Tx(t)]
      BY <2>2, <1>4 DEF StoreGet
    <3>2. Vec(m)[h] \in State
      BY <2>2, <1>1, <1>2, VersionFacts
    <3>3. Vec(m)[h][Tx(t)] \in {Mark, None}
      BY <3>2, WriterFacts DEF State
    <3> QED BY <2>2, <3>1, <3>3, ConstantFacts
  <2> QED BY <2>1, <2>2
<1>7. Query(m, "entry", h, Tx(t), TRUE) # Error <=> data # None
  <2> DEFINE at == GetState(main, HeightFrom(h))
             ok == [kind |-> "ok", data |-> data,
                    root |-> IF m \in Proving THEN version ELSE None,
                    shown |-> StoreGet(main, HeightFrom(h), m), at |-> at,
                    height |-> CurrentHeight(main)]
  <2>1. Query(m, "entry", h, Tx(t), TRUE) =
          IF m \in Proving /\ (data = None \/ version = None) THEN Error
          ELSE IF at = None THEN Panics ELSE ok
    BY <1>4, <1>5, QueryEntry
  <2>2. ok.kind = "ok"
    OBVIOUS
  <2>3. data # None => version # None
    BY <1>4, <1>6
  <2> HIDE DEF at, ok, data, version
  <2> QED BY <1>1, <2>1, <2>2, <2>3, KindFacts
<1>8. h \in 1 .. Height =>
        (Vec(m)[h][Tx(t)] = Mark <=> status[t] = "ok" /\ h >= landed[t])
  BY <1>1, <1>2 DEF VersionWrites
<1>9. h \in landed[t] .. Height <=> h \in 1 .. Height /\ h >= landed[t]
  BY <1>1, <1>2, <1>3
<1> HIDE DEF data
<1>10. data # None <=> status[t] = "ok" /\ h \in landed[t] .. Height
  BY <1>6, <1>8, <1>9, Zenon
<1> QED BY <1>2, <1>7, <1>10

-----------------------------------------------------------------------------
(* Accounts                                                                *)

\* Accounts are steps of the application with something more.
LEMMA AccountStep ==
  ASSUME [AccountNext]_acctVars
  PROVE  [Next]_vars
<1>1. CASE UNCHANGED acctVars
  BY <1>1 DEF acctVars
<1>2. CASE InitAccounts \/ PassedMsgOk \/ PassedMsgErr \/ PassedMsgPanics \/ UnknownSigner
  BY <1>2 DEF InitAccounts, PassedMsgOk, PassedMsgErr, PassedMsgPanics, UnknownSigner, Next
<1>3. CASE \E t \in Txs : SignedTx(t)
  BY <1>3 DEF SignedTx, Next
<1>4. CASE ResetAccounts \/ ApplyAccounts \/ CommitAccounts \/ Elsewhere
  BY <1>4 DEF ResetAccounts, ApplyAccounts, CommitAccounts, Elsewhere, Next
<1> QED BY <1>1, <1>2, <1>3, <1>4 DEF AccountNext

AccState == [Addresses -> Nat \cup {None}]

\* Accounts come and go with genesis, all or none of them.
Empty(st) == \A a \in Addresses : st[a] = None
Full(st) == \A a \in Addresses : st[a] # None <=> a \in GenesisAddrs

AccTypes == /\ accounts \in StoreOf(AccState, {0})
            /\ signer \in [Txs -> Addresses \cup {None}]

Whole == /\ Empty(accounts.pending) \/ Full(accounts.pending)
         /\ Empty(accounts.staged) \/ Full(accounts.staged)

\* The last message of a transaction has passed only if its signer is known.
Signed ==
  /\ pc \in {"msgs", "failed"} => signer[tx] \in Addresses
  /\ pc = "msgs" /\ left = 0 => signer[tx] \in GenesisAddrs /\ Full(accounts.pending)

\* From the first transaction that succeeds on, the accounts are there.
Served ==
  \A t \in Txs : status[t] = "ok" =>
    /\ signer[t] \in GenesisAddrs /\ landed[t] \in Nat \ {0}
    /\ Full(accounts.pending) /\ Full(accounts.staged)
    /\ \A h \in landed[t] .. Len(accounts.store.vec) : Full(accounts.store.vec[h])

\* The accounts are the content of module 1's store: one version for each of it.
SameHeight ==
  Len(accounts.store.vec) = Height + (IF pc = "commit" /\ 1 < next THEN 1 ELSE 0)

AccInv == AccTypes /\ Whole /\ Signed /\ Served /\ SameHeight

\* The length of the main store's vector, by what happens to the main store.
LEMMA HeightSteps ==
  ASSUME TypeOK
  PROVE  /\ main' = main => Height' = Height
         /\ main' = StoreReset(main) \/ main' = StoreApply(main) => Height' = Height
         /\ \A m \in Modules : \A r \in Roots : main' = StoreSet(main, m, r) => Height' = Height
         /\ main' = StoreCommit(main) => Height' = Height + 1
<1> DEFINE R == [Modules -> Roots]
<1>1. main \in StoreOf(R, {0}) /\ None \in Roots /\ {0} \in SUBSET Nat
  BY ConstantFacts DEF TypeOK, Roots
<1>2. main' = StoreReset(main) \/ main' = StoreApply(main) => Height' = Height
  <2> HIDE DEF R
  <2> QED BY <1>1, SettleLemma DEF Height, MainVec
<1>3. \A m \in Modules : \A r \in Roots : main' = StoreSet(main, m, r) => Height' = Height
  <2> SUFFICES ASSUME NEW m \in Modules, NEW r \in Roots, main' = StoreSet(main, m, r)
               PROVE  Height' = Height
    OBVIOUS
  <2>1. StoreSet(main, m, r).store = main.store
    BY <1>1 DEF StoreSet, StoreOf
  <2> QED BY <2>1 DEF Height, MainVec
<1>4. main' = StoreCommit(main) => Height' = Height + 1
  <2> HIDE DEF R
  <2>1. main.store \in VecOf(R, {0}) /\ main.pending \in R
    BY <1>1 DEF StoreOf
  <2>2. StoreCommit(main).store = VecPush(main.store, main.pending)
    BY <1>1, CommitLemma
  <2>3. VecPush(main.store, main.pending).vec = Append(main.store.vec, main.pending)
    BY <2>1 DEF VecPush, VecOf
  <2> QED BY <2>1, <2>2, <2>3 DEF Height, MainVec, VecOf
<1> QED BY <1>2, <1>3, <1>4 DEF Height, MainVec

LEMMA InitAcc == AccountInit => AccInv
<1> SUFFICES ASSUME AccountInit PROVE AccInv
  OBVIOUS
<1> DEFINE none == [a \in Addresses |-> None]
<1>1. accounts = [store |-> [vec |-> <<>>, pruned |-> 0], staged |-> none, pending |-> none]
  BY DEF AccountInit, NewStore, EmptyVec
<1>2. none \in AccState /\ Empty(none)
  BY DEF AccState, Empty
<1>3. \A t \in Txs : status[t] = "new"
  BY DEF AccountInit, Init
<1>4. Height = 0 /\ pc = "start"
  BY DEF AccountInit, Init, Height, MainVec, NewStore, EmptyVec
<1> HIDE DEF none
<1>5. AccTypes
  <2>1. accounts \in StoreOf(AccState, {0})
    BY <1>1, <1>2 DEF StoreOf, VecOf
  <2>2. signer = [t \in Txs |-> None]
    BY DEF AccountInit
  <2> QED BY <2>1, <2>2 DEF AccTypes
<1>6. Whole /\ Signed /\ Served /\ SameHeight
  BY <1>1, <1>2, <1>3, <1>4 DEF Whole, Signed, Served, SameHeight
<1> QED BY <1>5, <1>6 DEF AccInv

\* Steps that leave the accounts alone and make no transaction succeed.
LEMMA UnmovedAcc ==
  ASSUME AccInv, accounts' = accounts, signer' \in [Txs -> Addresses \cup {None}],
         \A t \in Txs : status'[t] = "ok" =>
           status[t] = "ok" /\ signer'[t] = signer[t] /\ landed'[t] = landed[t],
         Signed', SameHeight'
  PROVE  AccInv'
  BY DEF AccInv, AccTypes, Whole, Served

\* What auth does to the accounts.
LEMMA RaiseEffect ==
  ASSUME IInv, AccInv, MsgOk \/ MsgErr \/ MsgPanics, Raise
  PROVE  /\ signer[tx] \in Addresses /\ tx \in Txs /\ status[tx] = "running"
         /\ accounts.pending[signer[tx]] \in Nat /\ accounts.pending[signer[tx]] # None
         /\ accounts' \in StoreOf(AccState, {0})
         /\ accounts'.store = accounts.store /\ accounts'.staged = accounts.staged
         /\ accounts'.pending =
              [accounts.pending EXCEPT ![signer[tx]] = accounts.pending[signer[tx]] + 1]
<1> DEFINE a == signer[tx]
           n == accounts.pending[a]
<1>1. TypeOK /\ Running /\ AccTypes /\ Whole /\ Signed /\ Served /\ SameHeight
  BY DEF IInv, WriteInv, AccInv
<1>2. /\ pc = "msgs" /\ pc' \in {"msgs", "failed", "panicked"} /\ signer' = signer
      /\ UNCHANGED <<main, tx, next, status, landed>>
  BY DEF MsgOk, MsgErr, MsgPanics, Raise
<1>3. a \in Addresses /\ tx \in Txs /\ status[tx] = "running"
  BY <1>1, <1>2 DEF Signed, Running
<1>4. n # None /\ accounts' = StoreSet(accounts, a, n + 1)
  <2>1. accounts.pending \in AccState
    BY <1>1 DEF AccTypes, StoreOf
  <2>2. accounts.pending # None
    BY <2>1, AccountAssumption DEF AccState
  <2>3. GetAccount(a) = n
    BY <2>2 DEF GetAccount, SequenceAt, StoreGet, GetState, Pending
  <2> QED BY <2>3 DEF Raise, SetAccount
<1>5. n + 1 \in Nat \cup {None} /\ n + 1 # None /\ n \in Nat
  <2>1. n \in Nat
    BY <1>1, <1>3, <1>4 DEF AccTypes, StoreOf, AccState
  <2> HIDE DEF n
  <2> QED BY <2>1, AccountAssumption
<1> HIDE DEF n, a
<1>6. /\ accounts' \in StoreOf(AccState, {0})
      /\ accounts'.store = accounts.store /\ accounts'.staged = accounts.staged
      /\ accounts'.pending = [accounts.pending EXCEPT ![a] = n + 1]
  <2> DEFINE S == Nat \cup {None}
             P == {0}
             x == n + 1
  <2>1. accounts \in StoreOf([Addresses -> S], P) /\ x \in S /\ None \in S
    BY <1>1, <1>5 DEF AccTypes, AccState
  <2> HIDE DEF S, P, x
  <2>2. /\ StoreSet(accounts, a, x) \in StoreOf([Addresses -> S], P)
        /\ StoreSet(accounts, a, x).store = accounts.store
        /\ StoreSet(accounts, a, x).staged = accounts.staged
        /\ StoreSet(accounts, a, x).pending = [accounts.pending EXCEPT ![a] = x]
    <3>1. a \in Addresses /\ accounts.pending \in [Addresses -> S]
      BY <1>3, <2>1 DEF StoreOf
    <3>2. [accounts.pending EXCEPT ![a] = x] \in [Addresses -> S]
      BY <2>1, <3>1
    <3> QED BY <2>1, <3>2 DEF StoreSet, StoreOf
  <2> QED BY <1>4, <2>2 DEF AccState, S, P, x
<1> QED BY <1>3, <1>4, <1>5, <1>6 DEF n, a

\* Auth raises a sequence number: whose there was one, and all still are there.
LEMMA RaiseAcc ==
  ASSUME IInv, AccInv, MsgOk \/ MsgErr \/ MsgPanics, Raise
  PROVE  AccInv'
<1> DEFINE a == signer[tx]
           n == accounts.pending[a]
<1>1. TypeOK /\ Running /\ AccTypes /\ Whole /\ Signed /\ Served /\ SameHeight
  BY DEF IInv, WriteInv, AccInv
<1>2. /\ pc = "msgs" /\ pc' \in {"msgs", "failed", "panicked"} /\ signer' = signer
      /\ UNCHANGED <<main, tx, next, status, landed>>
  BY DEF MsgOk, MsgErr, MsgPanics, Raise
<1>3. /\ a \in Addresses /\ tx \in Txs /\ status[tx] = "running"
      /\ n # None /\ n \in Nat
      /\ accounts' \in StoreOf(AccState, {0})
      /\ accounts'.store = accounts.store /\ accounts'.staged = accounts.staged
      /\ accounts'.pending = [accounts.pending EXCEPT ![a] = n + 1]
  BY RaiseEffect
<1>4. n # None
  BY <1>3
<1> HIDE DEF n, a
<1>5. n + 1 # None
  BY <1>3, AccountAssumption
<1>6. accounts'.pending = [accounts.pending EXCEPT ![a] = n + 1]
  BY <1>3
<1>7. Full(accounts.pending) /\ a \in GenesisAddrs
  BY <1>1, <1>3, <1>4 DEF Whole, Empty, Full, n
<1>8. Full(accounts'.pending)
  BY <1>1, <1>3, <1>5, <1>6, <1>7 DEF Full, AccTypes, StoreOf, AccState
<1>9. AccTypes' /\ Whole'
  BY <1>1, <1>2, <1>3, <1>8 DEF AccTypes, Whole
<1>10. Signed'
  BY <1>2, <1>3, <1>7, <1>8 DEF Signed, a
<1>11. Served'
  BY <1>1, <1>2, <1>3, <1>8 DEF Served
<1>12. SameHeight'
  <2>1. Height' = Height
    BY <1>1, <1>2, HeightSteps
  <2> QED BY <1>1, <1>2, <1>3, <2>1 DEF SameHeight
<1> QED BY <1>9, <1>10, <1>11, <1>12 DEF AccInv

\* A transaction ends: its signer had an account if it succeeds.
LEMMA SettleAcc ==
  ASSUME IInv, AccInv, ResetAccounts \/ ApplyAccounts
  PROVE  AccInv'
<1>1. TypeOK /\ Running /\ AccTypes /\ Whole /\ Signed /\ Served /\ SameHeight
  BY DEF IInv, WriteInv, AccInv
<1>2. /\ StoreApply(accounts) \in StoreOf(AccState, {0})
      /\ StoreApply(accounts).store = accounts.store
      /\ StoreApply(accounts).staged = accounts.pending
      /\ StoreApply(accounts).pending = accounts.pending
      /\ StoreReset(accounts) \in StoreOf(AccState, {0})
      /\ StoreReset(accounts).store = accounts.store
      /\ StoreReset(accounts).staged = accounts.staged
      /\ StoreReset(accounts).pending = accounts.staged
  <2>1. accounts \in StoreOf(AccState, {0})
    BY <1>1 DEF AccTypes
  <2> QED BY <2>1, SettleLemma
<1>3. CASE ResetAccounts
  <2>1. /\ pc = "failed" /\ pc' = "block" /\ main' = StoreReset(main)
        /\ accounts' = StoreReset(accounts) /\ signer' = signer
        /\ status' = [status EXCEPT ![tx] = "failed"]
        /\ UNCHANGED <<tx, next, landed>>
    BY <1>3 DEF ResetAccounts, ResetAll
  <2>2. \A t \in Txs : status'[t] = "ok" => status[t] = "ok"
    BY <1>1, <2>1 DEF TypeOK
  <2>3. Height' = Height
    BY <1>1, <2>1, HeightSteps
  <2>4. AccTypes' /\ Whole' /\ Signed' /\ Served' /\ SameHeight'
    BY <1>1, <1>2, <2>1, <2>2, <2>3 DEF AccTypes, Whole, Signed, Served, SameHeight
  <2> QED BY <2>4 DEF AccInv
<1>4. CASE ApplyAccounts
  <2>1. /\ pc = "msgs" /\ left = 0 /\ pc' = "block" /\ main' = StoreApply(main)
        /\ accounts' = StoreApply(accounts) /\ signer' = signer
        /\ status' = [status EXCEPT ![tx] = "ok"]
        /\ UNCHANGED <<tx, next, landed>>
    BY <1>4 DEF ApplyAccounts, ApplyAll
  <2>2. Height' = Height /\ Height \in Nat
    BY <1>1, <2>1, HeightSteps, HeightFacts
  <2>3. /\ tx \in Txs /\ landed[tx] = Height + 1
        /\ signer[tx] \in GenesisAddrs /\ Full(accounts.pending)
    BY <1>1, <2>1 DEF Running, Signed
  <2>4. Len(accounts.store.vec) = Height
    BY <1>1, <2>1, <2>2 DEF SameHeight
  <2>5. \A t \in Txs : status'[t] = "ok" => t = tx \/ status[t] = "ok"
    BY <1>1, <2>1 DEF TypeOK
  <2>6. Served'
    <3> SUFFICES ASSUME NEW t \in Txs, status'[t] = "ok"
                 PROVE  /\ signer[t] \in GenesisAddrs /\ landed[t] \in Nat \ {0}
                        /\ \A h \in landed[t] .. Len(accounts.store.vec) :
                             Full(accounts.store.vec[h])
      BY <1>2, <2>1, <2>3 DEF Served
    <3>1. CASE t = tx
      BY <3>1, <2>2, <2>3, <2>4
    <3>2. CASE t # tx
      BY <3>2, <1>1, <2>5 DEF Served
    <3> QED BY <3>1, <3>2
  <2>7. AccTypes' /\ Whole' /\ Signed' /\ SameHeight'
    BY <1>1, <1>2, <2>1, <2>2, <2>3 DEF AccTypes, Whole, Signed, SameHeight
  <2> QED BY <2>6, <2>7 DEF AccInv
<1> QED BY <1>3, <1>4

\* The version that is committed is the pending state.
LEMMA CommitEffect ==
  ASSUME accounts \in StoreOf(AccState, {0})
  PROVE  /\ StoreCommit(accounts) \in StoreOf(AccState, {0})
         /\ StoreCommit(accounts).staged = accounts.pending
         /\ StoreCommit(accounts).pending = accounts.pending
         /\ StoreCommit(accounts).store.vec = Append(accounts.store.vec, accounts.pending)
<1>1. {0} \in SUBSET Nat
  BY ConstantFacts
<1>2. StoreCommit(accounts).store = VecPush(accounts.store, accounts.pending)
  BY <1>1, CommitLemma
<1>3. VecPush(accounts.store, accounts.pending).vec = Append(accounts.store.vec, accounts.pending)
  BY DEF VecPush, StoreOf, VecOf
<1> QED BY <1>1, <1>2, <1>3, CommitLemma

\* The store of the accounts is committed first: its version is the pending state.
LEMMA CommitAcc ==
  ASSUME IInv, AccInv, CommitAccounts
  PROVE  AccInv'
<1> DEFINE vec == accounts.store.vec
<1>1. TypeOK /\ Cycle /\ AccTypes /\ Whole /\ Signed /\ Served /\ SameHeight
  BY DEF IInv, VersionInv, AccInv
<1>2. /\ pc \in {"block", "commit"} /\ next <= NumModules /\ next' = next + 1
      /\ pc' = "commit" /\ signer' = signer /\ next \in Modules
      /\ UNCHANGED <<tx, left, status, landed>>
  BY <1>1, ConstantFacts DEF CommitAccounts, CommitModule, TypeOK, Modules
<1>3. Height' = Height /\ Height \in Nat
  <2>1. main' = StoreSet(main, next, RootHash(StoreCommit(stores[next])))
    BY DEF CommitAccounts, CommitModule
  <2>2. stores[next] \in StoreOf(State, {0}) /\ {0} \in SUBSET Nat
    BY <1>1, <1>2, ConstantFacts DEF TypeOK
  <2>3. RootHash(StoreCommit(stores[next])) = stores[next].pending
    BY <2>2, CommitLemma
  <2>4. stores[next].pending \in Roots
    BY <2>2 DEF StoreOf, Roots
  <2> QED BY <1>1, <1>2, <2>1, <2>3, <2>4, HeightSteps, HeightFacts
<1>4. next \in Nat \ {0}
  BY <1>2, ConstantFacts DEF Modules
<1>5. CASE next = 1
  <2>1. accounts' = StoreCommit(accounts) /\ pc \in {"block", "commit"}
    BY <1>2, <1>5 DEF CommitAccounts
  <2>2. /\ accounts' \in StoreOf(AccState, {0}) /\ accounts'.staged = accounts.pending
        /\ accounts'.pending = accounts.pending
        /\ accounts'.store.vec = Append(vec, accounts.pending)
    BY <1>1, <2>1, CommitEffect DEF AccTypes
  <2>3. vec \in Seq(AccState) /\ Len(vec) = Height
    BY <1>1, <1>3, <1>5 DEF AccTypes, StoreOf, VecOf, SameHeight
  <2>4. /\ Len(accounts'.store.vec) = Height + 1
        /\ accounts'.store.vec[Height + 1] = accounts.pending
        /\ \A h \in 1 .. Height : accounts'.store.vec[h] = vec[h]
    BY <1>3, <2>2, <2>3
  <2>5. Served'
    <3> SUFFICES ASSUME NEW t \in Txs, status[t] = "ok",
                        NEW h \in landed[t] .. Height + 1
                 PROVE  Full(accounts'.store.vec[h])
      BY <1>1, <1>2, <2>2, <2>4 DEF Served
    <3>1. landed[t] \in Nat \ {0} /\ Full(accounts.pending)
      BY <1>1 DEF Served
    <3>2. CASE h = Height + 1
      BY <2>4, <3>1, <3>2
    <3>3. CASE h # Height + 1
      <4>1. h \in 1 .. Height /\ h \in landed[t] .. Len(vec)
        BY <1>3, <2>3, <3>1, <3>3
      <4>2. Full(vec[h])
        BY <1>1, <4>1 DEF Served
      <4> QED BY <2>4, <4>1, <4>2
    <3> QED BY <3>2, <3>3
  <2>6. SameHeight'
    BY <1>2, <1>3, <1>5, <2>4 DEF SameHeight
  <2>7. AccTypes' /\ Whole' /\ Signed'
    BY <1>1, <1>2, <2>2 DEF AccTypes, Whole, Signed
  <2> QED BY <2>5, <2>6, <2>7 DEF AccInv
<1>6. CASE next # 1
  <2>1. accounts' = accounts /\ pc = "commit" /\ 1 < next /\ 1 < next'
    BY <1>1, <1>2, <1>4, <1>6 DEF CommitAccounts, Cycle
  <2>2. Signed' /\ SameHeight'
    BY <1>1, <1>2, <1>3, <2>1 DEF Signed, SameHeight
  <2> QED BY <1>1, <1>2, <2>1, <2>2, UnmovedAcc DEF AccTypes
<1> QED BY <1>5, <1>6

LEMMA StepAcc ==
  ASSUME IInv, AccInv, [AccountNext]_acctVars
  PROVE  AccInv'
<1>1. TypeOK /\ AccTypes /\ Whole /\ Signed /\ Served /\ SameHeight
  BY DEF IInv, AccInv
<1>2. main' = main => Height' = Height
  BY <1>1, HeightSteps
<1>3. CASE InitAccounts
  <2> DEFINE new == [a \in Addresses |-> IF a \in GenesisAddrs THEN 0 ELSE accounts.pending[a]]
  <2>1. /\ pc = "start" /\ pc' = "idle" /\ main' = main /\ signer' = signer
        /\ accounts' = [accounts EXCEPT !.pending = new]
        /\ UNCHANGED <<tx, left, next, status, landed>>
    BY <1>3 DEF InitAccounts, InitChain
  <2>2. new \in AccState /\ Full(new)
    <3>1. accounts.pending \in AccState
      BY <1>1 DEF AccTypes, StoreOf
    <3>2. new \in AccState
      BY <3>1 DEF AccState
    <3>3. \A a \in Addresses \ GenesisAddrs : accounts.pending[a] = None
      BY <1>1 DEF Whole, Empty, Full
    <3>4. 0 # None
      BY AccountAssumption
    <3> QED BY <3>2, <3>3, <3>4 DEF Full
  <2> HIDE DEF new
  <2>3. /\ accounts' \in StoreOf(AccState, {0}) /\ accounts'.pending = new
        /\ accounts'.staged = accounts.staged /\ accounts'.store = accounts.store
    BY <1>1, <2>1, <2>2 DEF AccTypes, StoreOf
  <2>4. AccTypes' /\ Whole' /\ Signed' /\ Served'
    BY <1>1, <2>1, <2>2, <2>3 DEF AccTypes, Whole, Signed, Served
  <2>5. SameHeight'
    BY <1>1, <1>2, <2>1, <2>3 DEF SameHeight
  <2> QED BY <2>4, <2>5 DEF AccInv
<1>4. ASSUME NEW t \in Txs, SignedTx(t) PROVE AccInv'
  <2>1. PICK a \in Addresses : signer' = [signer EXCEPT ![t] = a]
    BY <1>4 DEF SignedTx
  <2>2. /\ pc = "block" /\ pc' = "msgs" /\ status[t] = "new" /\ tx' = t
        /\ left' \in 1 .. MaxMsgs
        /\ status' = [status EXCEPT ![t] = "running"]
        /\ landed' = [landed EXCEPT ![t] = Block]
        /\ UNCHANGED <<accounts, main, next>>
    BY <1>4 DEF SignedTx, DeliverTx
  <2>3. signer' \in [Txs -> Addresses \cup {None}] /\ signer'[t] = a
    BY <1>1, <2>1 DEF AccTypes
  <2>4. \A u \in Txs : status'[u] = "ok" =>
          status[u] = "ok" /\ signer'[u] = signer[u] /\ landed'[u] = landed[u]
    BY <1>1, <2>1, <2>2 DEF TypeOK, AccTypes
  <2>5. left' # 0
    BY <2>2, ConstantFacts
  <2>6. Signed' /\ SameHeight'
    BY <1>1, <1>2, <2>2, <2>3, <2>5 DEF Signed, SameHeight
  <2> QED BY <2>2, <2>3, <2>4, <2>6, UnmovedAcc
<1>5. CASE PassedMsgOk \/ PassedMsgErr \/ PassedMsgPanics
  BY <1>5, RaiseAcc DEF PassedMsgOk, PassedMsgErr, PassedMsgPanics
<1>6. CASE UnknownSigner
  <2>1. /\ pc = "msgs" /\ pc' = "failed"
        /\ UNCHANGED <<accounts, signer, main, tx, left, next, status, landed>>
    BY <1>6 DEF UnknownSigner, MsgErr
  <2>2. Signed' /\ SameHeight'
    BY <1>1, <1>2, <2>1 DEF Signed, SameHeight
  <2> QED BY <1>1, <2>1, <2>2, UnmovedAcc DEF AccTypes
<1>7. CASE ResetAccounts \/ ApplyAccounts
  BY <1>7, SettleAcc
<1>8. CASE CommitAccounts
  BY <1>8, CommitAcc
<1>9. CASE BeginBlock /\ UNCHANGED <<accounts, signer, raised>>
  <2>1. /\ pc = "idle" /\ pc' = "block"
        /\ UNCHANGED <<accounts, signer, main, tx, left, next, status, landed>>
    BY <1>9 DEF BeginBlock
  <2>2. Signed' /\ SameHeight'
    BY <1>1, <1>2, <2>1 DEF Signed, SameHeight
  <2> QED BY <1>1, <2>1, <2>2, UnmovedAcc DEF AccTypes
<1>10. ASSUME NEW t \in Txs, RejectTx(t), UNCHANGED <<accounts, signer, raised>>
       PROVE  AccInv'
  <2>1. /\ status' = [status EXCEPT ![t] = "rejected"]
        /\ UNCHANGED <<accounts, signer, main, pc, tx, left, next, landed>>
    BY <1>10 DEF RejectTx
  <2>2. \A u \in Txs : status'[u] = "ok" => status[u] = "ok"
    BY <1>1, <2>1 DEF TypeOK
  <2>3. Signed' /\ SameHeight'
    BY <1>1, <1>2, <2>1 DEF Signed, SameHeight
  <2> QED BY <1>1, <2>1, <2>2, <2>3, UnmovedAcc DEF AccTypes
<1>11. CASE CommitMain /\ UNCHANGED <<accounts, signer, raised>>
  <2>1. /\ pc = "commit" /\ pc' = "idle" /\ next = NumModules + 1 /\ next' = 1
        /\ main' = StoreCommit(main)
        /\ UNCHANGED <<accounts, signer, tx, left, status, landed>>
    BY <1>11 DEF CommitMain
  <2>2. Height' = Height + 1 /\ Height \in Nat
    BY <1>1, <2>1, HeightSteps, HeightFacts
  <2>3. 1 < next
    BY <2>1, ConstantFacts
  <2>4. Signed' /\ SameHeight'
    BY <1>1, <2>1, <2>2, <2>3 DEF Signed, SameHeight
  <2> QED BY <1>1, <2>1, <2>4, UnmovedAcc DEF AccTypes
<1>12. CASE UNCHANGED acctVars
  <2>1. UNCHANGED <<accounts, signer, main, pc, tx, left, next, status, landed>>
    BY <1>12 DEF acctVars, vars
  <2>2. Signed' /\ SameHeight'
    BY <1>1, <1>2, <2>1 DEF Signed, SameHeight
  <2> QED BY <1>1, <2>1, <2>2, UnmovedAcc DEF AccTypes
<1> QED BY <1>3, <1>4, <1>5, <1>6, <1>7, <1>8, <1>9, <1>10, <1>11, <1>12
        DEF AccountNext, Elsewhere

LEMMA AccountInvariance == AccountSpec => [](IInv /\ AccInv)
<1>1. AccountInit => IInv /\ AccInv
  BY InitInv, InitAcc DEF AccountInit
<1>2. IInv /\ AccInv /\ [AccountNext]_acctVars => IInv' /\ AccInv'
  BY AccountStep, StepInv, StepAcc
<1> QED BY <1>1, <1>2, PTL DEF AccountSpec

-----------------------------------------------------------------------------
\* With accounts the application does nothing that it does not do without.
THEOREM AccountsRunTheApp == AccountSpec => Init /\ [][Next]_vars
<1>1. AccountInit => Init
  BY DEF AccountInit
<1>2. [AccountNext]_acctVars => [Next]_vars
  BY AccountStep
<1> QED BY <1>1, <1>2, PTL DEF AccountSpec

\* Every answer with a proof verifies: the module's proof leads to the root
\* that the main store holds at that height, for the latest height the one
\* that info reports; and query panics at heights that there are not, if and only
\* if a module answers for them: the bank for an entry, gov and upgrade for a
\* proposal or a plan that is pending.
THEOREM QueryProofsVerify == AccountSpec => []QueriesVerify
  BY AccountInvariance, QueriesVerifyInv, PTL

\* A transaction's writes can be proved from its block on if it succeeded, and
\* never if it failed.
THEOREM ProvableIffSucceeded == AccountSpec => []TxProvable
  BY AccountInvariance, TxProvableInv, PTL

\* A committed height reads the accounts of that version.
LEMMA VersionOfAccount ==
  ASSUME AccTypes, NEW a \in Addresses, NEW h \in 1 .. CurrentHeight(accounts)
  PROVE  /\ h \in 1 .. Len(accounts.store.vec)
         /\ SequenceAt(Stable(h), a) = accounts.store.vec[h][a]
<1> DEFINE vec == accounts.store.vec
<1>1. /\ accounts \in StoreOf(AccState, {0}) /\ None \notin AccState
      /\ vec \in Seq(AccState) /\ accounts.store.pruned = 0
  BY AccountAssumption DEF AccTypes, StoreOf, VecOf, AccState
<1>2. CurrentHeight(accounts) = Len(vec)
  BY <1>1 DEF CurrentHeight, OriginalLength
<1>3. h \in 1 .. Len(vec)
  BY <1>2
<1>4. GetState(accounts, Stable(h)) = vec[h]
  BY <1>1, <1>3 DEF GetState, Stable, VecGet
<1>5. vec[h] # None
  BY <1>1, <1>3
<1>6. SequenceAt(Stable(h), a) = vec[h][a]
  BY <1>4, <1>5 DEF SequenceAt, StoreGet
<1> QED BY <1>3, <1>6

\* Once a transaction has succeeded no genesis account is ever missing, and no
\* transaction succeeds that is not signed by one.
THEOREM GenesisAccountsStay == AccountSpec => []AccountsStay
<1>1. IInv /\ AccInv => AccountsStay
  <2> SUFFICES ASSUME IInv, AccInv, NEW t \in Txs, status[t] = "ok"
               PROVE  /\ signer[t] \in GenesisAddrs
                      /\ \A a \in GenesisAddrs :
                           /\ GetAccount(a) # None
                           /\ \A h \in landed[t] .. CurrentHeight(accounts) :
                                SequenceAt(Stable(h), a) # None
    BY DEF AccountsStay
  <2> DEFINE vec == accounts.store.vec
  <2>1. /\ signer[t] \in GenesisAddrs /\ landed[t] \in Nat \ {0} /\ Full(accounts.pending)
        /\ \A h \in landed[t] .. Len(vec) : Full(vec[h])
    BY DEF AccInv, Served
  <2>2. /\ accounts \in StoreOf(AccState, {0}) /\ None \notin AccState
        /\ accounts.pending \in AccState
        /\ vec \in Seq(AccState) /\ accounts.store.pruned = 0
    BY AccountAssumption DEF AccInv, AccTypes, StoreOf, VecOf, AccState
  <2>3. CurrentHeight(accounts) = Len(vec)
    BY <2>2 DEF CurrentHeight, OriginalLength
  <2>4. ASSUME NEW a \in GenesisAddrs PROVE GetAccount(a) # None
    <3>1. GetAccount(a) = accounts.pending[a]
      BY <2>2 DEF GetAccount, SequenceAt, StoreGet, GetState, Pending
    <3> QED BY <2>1, <2>4, <3>1, AccountAssumption DEF Full
  <2>5. ASSUME NEW a \in GenesisAddrs, NEW h \in landed[t] .. Len(vec)
        PROVE  SequenceAt(Stable(h), a) # None
    <3>1. h \in 1 .. CurrentHeight(accounts) /\ a \in Addresses
      BY <2>1, <2>2, <2>3, AccountAssumption
    <3>4. SequenceAt(Stable(h), a) = vec[h][a]
      BY <3>1, VersionOfAccount DEF AccInv
    <3> QED BY <2>1, <2>5, <3>4, AccountAssumption DEF Full
  <2> QED BY <2>1, <2>3, <2>4, <2>5
<1> QED BY <1>1, AccountInvariance, PTL
-----------------------------------------------------------------------------
(* What the sequence numbers count.                                        *)

\* Auth has passed on no message of a transaction that has not begun, and none
\* has begun before genesis.
Unraised ==
  /\ raised \in [Txs -> Nat]
  /\ \A t \in Txs : status[t] \in {"new", "rejected"} => raised[t] = 0
  /\ pc = "start" => \A t \in Txs : status[t] = "new"

\* Each state of the store counts the messages whose writes it has.
PendingCounts ==
  \A a \in Addresses :
    accounts.pending[a] # None => accounts.pending[a] = SumFunctionOnSet(raised, Live(a))
StagedCounts ==
  \A a \in Addresses :
    accounts.staged[a] # None => accounts.staged[a] = SumFunctionOnSet(raised, Done(a))
VersionsCount ==
  \A a \in Addresses : \A h \in 1 .. Len(accounts.store.vec) :
    accounts.store.vec[h][a] # None =>
      accounts.store.vec[h][a] = SumFunctionOnSet(raised, SignedBy(a, h))

CountInv == Unraised /\ PendingCounts /\ StagedCounts /\ VersionsCount

LEMMA InitCount == AccountInit => CountInv
<1> SUFFICES ASSUME AccountInit PROVE CountInv
  OBVIOUS
<1> DEFINE none == [a \in Addresses |-> None]
<1>1. accounts = [store |-> [vec |-> <<>>, pruned |-> 0], staged |-> none, pending |-> none]
  BY DEF AccountInit, NewStore, EmptyVec
<1>2. Unraised
  BY DEF AccountInit, Init, Unraised
<1>3. PendingCounts /\ StagedCounts /\ VersionsCount
  BY <1>1 DEF PendingCounts, StagedCounts, VersionsCount
<1> QED BY <1>2, <1>3 DEF CountInv

\* Sums depend on the numbers of their transactions only.
LEMMA SameCount ==
  ASSUME Unraised, NEW S \in SUBSET Txs, NEW f, \A t \in S : f[t] = raised[t]
  PROVE  SumFunctionOnSet(f, S) = SumFunctionOnSet(raised, S)
<1>1. IsFiniteSet(S)
  BY AccountAssumption, FS_Subset
<1>2. \A t \in S : raised[t] \in Int
  BY DEF Unraised
<1> QED BY <1>1, <1>2, SumSame

\* Steps that change no account, number or set of transactions.
LEMMA UnmovedCount ==
  ASSUME CountInv, UNCHANGED <<accounts, raised>>, Unraised',
         \A a \in Addresses : Live(a)' = Live(a) /\ Done(a)' = Done(a),
         \A a \in Addresses : \A h \in Nat : SignedBy(a, h)' = SignedBy(a, h),
         Len(accounts.store.vec) \in Nat
  PROVE  CountInv'
<1>1. \A h \in 1 .. Len(accounts.store.vec) : h \in Nat
  OBVIOUS
<1> QED BY <1>1 DEF CountInv, PendingCounts, StagedCounts, VersionsCount

\* A sum over the same transactions of the same numbers is carried over.
LEMMA UnmovedSets ==
  ASSUME UNCHANGED <<signer, status, landed>>
  PROVE  /\ \A a \in Addresses : Live(a)' = Live(a) /\ Done(a)' = Done(a)
         /\ \A a \in Addresses : \A h \in Nat : SignedBy(a, h)' = SignedBy(a, h)
  BY DEF Live, Done, SignedBy

\* Auth passes on a message: its signer's number and the count go up by one.
LEMMA RaiseCount ==
  ASSUME IInv, AccInv, CountInv, MsgOk \/ MsgErr \/ MsgPanics, Raise
  PROVE  CountInv'
<1> DEFINE s == signer[tx]
           n == accounts.pending[s]
<1>1. /\ s \in Addresses /\ tx \in Txs /\ status[tx] = "running" /\ n \in Nat /\ n # None
      /\ accounts'.store = accounts.store /\ accounts'.staged = accounts.staged
      /\ accounts'.pending = [accounts.pending EXCEPT ![s] = n + 1]
      /\ accounts.pending \in AccState
  BY RaiseEffect DEF AccInv, AccTypes, StoreOf
<1>2. Unraised /\ PendingCounts /\ StagedCounts /\ VersionsCount
  BY DEF CountInv
<1>3. /\ pc = "msgs" /\ pc' # "start" /\ raised' = [raised EXCEPT ![tx] = @ + 1]
      /\ UNCHANGED <<signer, status, landed>>
  BY DEF MsgOk, MsgErr, MsgPanics, Raise
<1>4. /\ \A a \in Addresses : Live(a)' = Live(a) /\ Done(a)' = Done(a)
      /\ \A a \in Addresses : \A h \in Nat : SignedBy(a, h)' = SignedBy(a, h)
  BY <1>3, UnmovedSets
<1>5. /\ raised'[tx] = raised[tx] + 1 /\ \A t \in Txs \ {tx} : raised'[t] = raised[t]
      /\ raised' \in [Txs -> Nat] /\ raised \in [Txs -> Nat]
  BY <1>1, <1>2, <1>3 DEF Unraised
<1>6. Unraised'
  BY <1>1, <1>2, <1>3, <1>5 DEF Unraised
<1>7. PendingCounts'
  <2> SUFFICES ASSUME NEW a \in Addresses, accounts'.pending[a] # None
               PROVE  accounts'.pending[a] = SumFunctionOnSet(raised', Live(a))
    BY <1>4 DEF PendingCounts
  <2>1. Live(a) \in SUBSET Txs /\ IsFiniteSet(Live(a))
    BY AccountAssumption, FS_Subset DEF Live
  <2>2. CASE a = s
    <3>1. n = SumFunctionOnSet(raised, Live(a)) /\ accounts'.pending[a] = n + 1
      BY <1>1, <1>2, <2>2 DEF PendingCounts, AccState
    <3>2. tx \in Live(a)
      BY <1>1, <2>2 DEF Live
    <3>3. \A t \in Live(a) : raised[t] \in Int /\ raised'[t] \in Int
      BY <1>5, <2>1
    <3>4. \A t \in Live(a) \ {tx} : raised[t] = raised'[t]
      BY <1>5, <2>1
    <3> HIDE DEF n
    <3>5. SumFunctionOnSet(raised', Live(a))
            = SumFunctionOnSet(raised, Live(a)) - raised[tx] + raised'[tx]
      BY <2>1, <3>2, <3>3, <3>4, SumChange
    <3> QED BY <1>1, <1>5, <3>1, <3>5
  <2>3. CASE a # s
    <3>1. accounts'.pending[a] = accounts.pending[a]
      BY <1>1, <2>3 DEF AccState
    <3>2. tx \notin Live(a)
      BY <2>3 DEF Live
    <3>3. \A t \in Live(a) : raised'[t] = raised[t]
      BY <1>5, <2>1, <3>2
    <3>4. SumFunctionOnSet(raised', Live(a)) = SumFunctionOnSet(raised, Live(a))
      BY <1>2, <2>1, <3>3, SameCount
    <3> QED BY <1>2, <3>1, <3>4 DEF PendingCounts
  <2> QED BY <2>2, <2>3
<1>8. ASSUME NEW S \in SUBSET Txs, tx \notin S
      PROVE  SumFunctionOnSet(raised', S) = SumFunctionOnSet(raised, S)
  BY <1>2, <1>5, <1>8, SameCount
<1>9. ASSUME NEW a \in Addresses
      PROVE  /\ Done(a) \in SUBSET Txs /\ tx \notin Done(a)
             /\ \A h : SignedBy(a, h) \in SUBSET Txs /\ tx \notin SignedBy(a, h)
  BY <1>1 DEF Done, SignedBy
<1>10. StagedCounts'
  BY <1>1, <1>2, <1>4, <1>8, <1>9 DEF StagedCounts
<1>11. VersionsCount'
  <2> SUFFICES ASSUME NEW a \in Addresses, NEW h \in 1 .. Len(accounts.store.vec),
                      accounts.store.vec[h][a] # None
               PROVE  accounts.store.vec[h][a] = SumFunctionOnSet(raised', SignedBy(a, h)')
    BY <1>1 DEF VersionsCount
  <2>1. h \in Nat
    OBVIOUS
  <2>2. SumFunctionOnSet(raised', SignedBy(a, h)) = SumFunctionOnSet(raised, SignedBy(a, h))
    BY <1>8, <1>9
  <2> QED BY <1>2, <1>4, <2>1, <2>2 DEF VersionsCount
<1> QED BY <1>6, <1>7, <1>10, <1>11 DEF CountInv

\* A transaction ends: the messages of one that failed count no more.
LEMMA SettleCount ==
  ASSUME IInv, AccInv, CountInv, ResetAccounts \/ ApplyAccounts
  PROVE  CountInv'
<1>1. /\ TypeOK /\ Running /\ accounts \in StoreOf(AccState, {0})
      /\ Unraised /\ PendingCounts /\ StagedCounts /\ VersionsCount
  BY DEF IInv, WriteInv, AccInv, AccTypes, CountInv
<1>2. /\ StoreApply(accounts).store = accounts.store
      /\ StoreApply(accounts).staged = accounts.pending
      /\ StoreApply(accounts).pending = accounts.pending
      /\ StoreReset(accounts).store = accounts.store
      /\ StoreReset(accounts).staged = accounts.staged
      /\ StoreReset(accounts).pending = accounts.staged
  BY <1>1, SettleLemma
<1>3. /\ pc \in {"failed", "msgs"} /\ pc' = "block" /\ signer' = signer
      /\ UNCHANGED <<raised, landed>>
      /\ \/ status' = [status EXCEPT ![tx] = "failed"] /\ accounts' = StoreReset(accounts)
         \/ status' = [status EXCEPT ![tx] = "ok"] /\ accounts' = StoreApply(accounts)
  BY DEF ResetAccounts, ApplyAccounts, ResetAll, ApplyAll
<1>4. /\ tx \in Txs /\ status[tx] = "running" /\ landed[tx] = Height + 1
      /\ \A t \in Txs : status[t] = "running" => t = tx
  BY <1>1, <1>3 DEF Running
<1>5. /\ status'[tx] \in {"ok", "failed"} /\ \A t \in Txs \ {tx} : status'[t] = status[t]
      /\ \A t \in Txs : status'[t] \in {"new", "rejected"} => status[t] \in {"new", "rejected"}
  BY <1>1, <1>3, <1>4 DEF TypeOK
<1>6. Unraised'
  BY <1>1, <1>3, <1>5 DEF Unraised
<1>7. \A a : Live(a)' = Done(a)'
  BY <1>4, <1>5 DEF Live, Done
<1>8. Len(accounts.store.vec) = Height /\ Height \in Nat
  BY <1>1, <1>3, HeightFacts DEF AccInv, SameHeight
<1>9. \A a \in Addresses : \A h \in 1 .. Len(accounts.store.vec) : SignedBy(a, h)' = SignedBy(a, h)
  <2> SUFFICES ASSUME NEW a \in Addresses, NEW h \in 1 .. Len(accounts.store.vec)
               PROVE  SignedBy(a, h)' = SignedBy(a, h)
    OBVIOUS
  <2>1. ~(landed[tx] <= h)
    BY <1>4, <1>8
  <2> QED BY <1>3, <1>4, <1>5, <2>1 DEF SignedBy
<1>10. accounts'.store = accounts.store
  BY <1>2, <1>3
<1>11. VersionsCount'
  BY <1>1, <1>3, <1>9, <1>10 DEF VersionsCount
<1>12. CASE status' = [status EXCEPT ![tx] = "failed"] /\ accounts' = StoreReset(accounts)
  <2>1. \A a : Done(a)' = Done(a)
    BY <1>1, <1>3, <1>4, <1>5, <1>12 DEF Done, TypeOK
  <2>2. PendingCounts' /\ StagedCounts'
    BY <1>1, <1>2, <1>3, <1>7, <1>12, <2>1 DEF PendingCounts, StagedCounts
  <2> QED BY <1>6, <1>11, <2>2 DEF CountInv
<1>13. CASE status' = [status EXCEPT ![tx] = "ok"] /\ accounts' = StoreApply(accounts)
  <2>1. \A a : Live(a)' = Live(a)
    BY <1>1, <1>3, <1>4, <1>5, <1>13 DEF Live, TypeOK
  <2>2. PendingCounts' /\ StagedCounts'
    BY <1>1, <1>2, <1>3, <1>7, <1>13, <2>1 DEF PendingCounts, StagedCounts
  <2> QED BY <1>6, <1>11, <2>2 DEF CountInv
<1> QED BY <1>3, <1>12, <1>13

\* A transaction begins: it has no message yet that counts.
LEMMA BeginCount ==
  ASSUME IInv, AccInv, CountInv, NEW t \in Txs, SignedTx(t)
  PROVE  CountInv'
<1>1. PICK s \in Addresses : signer' = [signer EXCEPT ![t] = s]
  BY DEF SignedTx
<1>2. /\ pc = "block" /\ pc' = "msgs" /\ status[t] = "new"
      /\ status' = [status EXCEPT ![t] = "running"]
      /\ landed' = [landed EXCEPT ![t] = Block]
      /\ UNCHANGED <<accounts, raised>>
  BY DEF SignedTx, DeliverTx
<1>3. TypeOK /\ AccTypes /\ Unraised /\ PendingCounts /\ StagedCounts /\ VersionsCount
  BY DEF IInv, AccInv, CountInv
<1>4. /\ status'[t] = "running" /\ signer'[t] = s /\ raised[t] = 0 /\ raised \in [Txs -> Nat]
      /\ \A u \in Txs \ {t} : status'[u] = status[u] /\ signer'[u] = signer[u]
                              /\ landed'[u] = landed[u]
  BY <1>1, <1>2, <1>3 DEF TypeOK, AccTypes, Unraised
<1>5. Unraised'
  BY <1>2, <1>3, <1>4 DEF Unraised
<1>6. \A a \in Addresses : Done(a)' = Done(a)
  BY <1>2, <1>4 DEF Done
<1>7. \A a \in Addresses : \A h \in Nat : SignedBy(a, h)' = SignedBy(a, h)
  BY <1>2, <1>4 DEF SignedBy
<1>8. \A a \in Addresses : SumFunctionOnSet(raised, Live(a)') = SumFunctionOnSet(raised, Live(a))
  <2> SUFFICES ASSUME NEW a \in Addresses
               PROVE  SumFunctionOnSet(raised, Live(a)') = SumFunctionOnSet(raised, Live(a))
    OBVIOUS
  <2>1. t \notin Live(a) /\ Live(a) \in SUBSET Txs
    BY <1>2 DEF Live
  <2>2. IsFiniteSet(Live(a))
    BY <2>1, AccountAssumption, FS_Subset
  <2>3. CASE a = s
    <3>1. Live(a)' = Live(a) \cup {t}
      BY <1>2, <1>4, <2>3 DEF Live
    <3>2. \A u \in Live(a) \cup {t} : raised[u] \in Int
      BY <1>4, <2>1
    <3>3. SumFunctionOnSet(raised, Live(a) \cup {t}) = raised[t] + SumFunctionOnSet(raised, Live(a))
      BY <2>1, <2>2, <3>2, SumAdd
    <3>4. SumFunctionOnSet(raised, Live(a)) \in Int
      BY <2>2, <3>2, SumInt
    <3> QED BY <1>4, <3>1, <3>3, <3>4
  <2>4. CASE a # s
    <3>1. Live(a)' = Live(a)
      BY <1>2, <1>4, <2>4 DEF Live
    <3> QED BY <3>1
  <2> QED BY <2>3, <2>4
<1>9. PendingCounts' /\ StagedCounts'
  BY <1>2, <1>3, <1>6, <1>8 DEF PendingCounts, StagedCounts
<1>10. VersionsCount'
  <2>1. \A h \in 1 .. Len(accounts.store.vec) : h \in Nat
    BY <1>3 DEF AccTypes, StoreOf, VecOf
  <2> QED BY <1>2, <1>3, <1>7, <2>1 DEF VersionsCount
<1> QED BY <1>5, <1>9, <1>10 DEF CountInv

\* The version that is committed counts every transaction that has succeeded.
LEMMA CommitCount ==
  ASSUME IInv, AccInv, CountInv, CommitAccounts
  PROVE  CountInv'
<1>1. /\ TypeOK /\ Running /\ Landed /\ Cycle /\ AccTypes /\ SameHeight
      /\ Unraised /\ PendingCounts /\ StagedCounts /\ VersionsCount
  BY DEF IInv, WriteInv, VersionInv, AccInv, CountInv
<1>2. /\ pc \in {"block", "commit"} /\ pc' = "commit"
      /\ UNCHANGED <<signer, raised, status, landed>>
      /\ accounts' = IF next = 1 THEN StoreCommit(accounts) ELSE accounts
  BY DEF CommitAccounts, CommitModule
<1>3. /\ \A a \in Addresses : Live(a)' = Live(a) /\ Done(a)' = Done(a)
      /\ \A a \in Addresses : \A h \in Nat : SignedBy(a, h)' = SignedBy(a, h)
  BY <1>2, UnmovedSets
<1>4. Unraised'
  BY <1>1, <1>2 DEF Unraised
<1>5. Height \in Nat /\ accounts.store.vec \in Seq(AccState)
  BY <1>1, HeightFacts DEF AccTypes, StoreOf, VecOf
<1>6. CASE next = 1
  <2> DEFINE vec == accounts.store.vec
  <2>1. /\ accounts'.staged = accounts.pending /\ accounts'.pending = accounts.pending
        /\ accounts'.store.vec = Append(vec, accounts.pending)
    BY <1>1, <1>2, <1>6, CommitEffect DEF AccTypes
  <2>2. Len(vec) = Height
    BY <1>1, <1>5, <1>6 DEF SameHeight
  <2>3. /\ Len(accounts'.store.vec) = Height + 1
        /\ accounts'.store.vec[Height + 1] = accounts.pending
        /\ \A h \in 1 .. Height : accounts'.store.vec[h] = vec[h]
    BY <1>5, <2>1, <2>2
  <2>4. \A a \in Addresses : Live(a) = Done(a)
    BY <1>1, <1>2 DEF Running, Live, Done
  <2>5. \A a \in Addresses : SignedBy(a, Height + 1) = Done(a)
    BY <1>1 DEF Landed, SignedBy, Done
  <2>6. PendingCounts' /\ StagedCounts'
    BY <1>1, <1>2, <1>3, <2>1, <2>4 DEF PendingCounts, StagedCounts
  <2>7. VersionsCount'
    <3> SUFFICES ASSUME NEW a \in Addresses, NEW h \in 1 .. Height + 1,
                        accounts'.store.vec[h][a] # None
                 PROVE  accounts'.store.vec[h][a] = SumFunctionOnSet(raised, SignedBy(a, h))
      <4>1. \A h \in 1 .. Height + 1 : h \in Nat
        BY <1>5
      <4> QED BY <1>2, <1>3, <2>3, <4>1 DEF VersionsCount
    <3>1. CASE h = Height + 1
      BY <1>1, <2>3, <2>4, <2>5, <3>1 DEF PendingCounts
    <3>2. CASE h # Height + 1
      <4>1. h \in 1 .. Height
        BY <1>5, <3>2
      <4> QED BY <1>1, <2>2, <2>3, <4>1 DEF VersionsCount
    <3> QED BY <3>1, <3>2
  <2> QED BY <1>4, <2>6, <2>7 DEF CountInv
<1>7. CASE next # 1
  <2>1. Len(accounts.store.vec) \in Nat
    BY <1>5
  <2> QED BY <1>2, <1>3, <1>4, <1>7, <2>1, UnmovedCount
<1> QED BY <1>6, <1>7

LEMMA StepCount ==
  ASSUME IInv, AccInv, CountInv, [AccountNext]_acctVars
  PROVE  CountInv'
<1>1. TypeOK /\ AccTypes /\ Unraised /\ PendingCounts /\ StagedCounts /\ VersionsCount
  BY DEF IInv, AccInv, CountInv
<1>2. Len(accounts.store.vec) \in Nat
  BY <1>1 DEF AccTypes, StoreOf, VecOf
<1>3. ASSUME UNCHANGED <<accounts, raised, signer, status, landed>>, pc' = "start" => pc = "start"
      PROVE  CountInv'
  <2>1. Unraised'
    BY <1>1, <1>3 DEF Unraised
  <2> QED BY <1>2, <1>3, <2>1, UnmovedSets, UnmovedCount
<1>4. CASE InitAccounts
  <2> DEFINE new == [a \in Addresses |-> IF a \in GenesisAddrs THEN 0 ELSE accounts.pending[a]]
  <2>1. /\ pc = "start" /\ pc' = "idle" /\ accounts' = [accounts EXCEPT !.pending = new]
        /\ UNCHANGED <<raised, signer, status, landed>>
    BY <1>4 DEF InitAccounts, InitChain
  <2>2. /\ accounts'.pending = new /\ accounts'.staged = accounts.staged
        /\ accounts'.store = accounts.store
    BY <1>1, <2>1 DEF AccTypes, StoreOf
  <2>3. /\ \A a \in Addresses : Live(a)' = Live(a) /\ Done(a)' = Done(a)
        /\ \A a \in Addresses : \A h \in Nat : SignedBy(a, h)' = SignedBy(a, h)
    BY <2>1, UnmovedSets
  <2>4. Unraised'
    BY <1>1, <2>1 DEF Unraised
  <2>5. \A a \in Addresses : SumFunctionOnSet(raised, Live(a)) = 0
    <3>1. \A a \in Addresses : Live(a) = {}
      BY <1>1, <2>1 DEF Unraised, Live
    <3> QED BY <3>1, SumEmpty
  <2>6. PendingCounts'
    <3> SUFFICES ASSUME NEW a \in Addresses, new[a] # None
                 PROVE  new[a] = SumFunctionOnSet(raised, Live(a))
      BY <2>1, <2>2, <2>3 DEF PendingCounts
    <3> QED BY <1>1, <2>5 DEF PendingCounts
  <2>7. StagedCounts'
    BY <1>1, <2>1, <2>2, <2>3 DEF StagedCounts
  <2>8. VersionsCount'
    <3>1. \A h \in 1 .. Len(accounts.store.vec) : h \in Nat
      BY <1>2
    <3> QED BY <1>1, <2>1, <2>2, <2>3, <3>1 DEF VersionsCount
  <2> QED BY <2>4, <2>6, <2>7, <2>8 DEF CountInv
<1>5. ASSUME NEW t \in Txs, SignedTx(t) PROVE CountInv'
  BY <1>5, BeginCount
<1>6. CASE PassedMsgOk \/ PassedMsgErr \/ PassedMsgPanics
  BY <1>6, RaiseCount DEF PassedMsgOk, PassedMsgErr, PassedMsgPanics
<1>7. CASE UnknownSigner
  BY <1>3, <1>7 DEF UnknownSigner, MsgErr
<1>8. CASE ResetAccounts \/ ApplyAccounts
  BY <1>8, SettleCount
<1>9. CASE CommitAccounts
  BY <1>9, CommitCount
<1>10. CASE (BeginBlock \/ CommitMain) /\ UNCHANGED <<accounts, signer, raised>>
  BY <1>3, <1>10 DEF BeginBlock, CommitMain
<1>11. ASSUME NEW t \in Txs, RejectTx(t), UNCHANGED <<accounts, signer, raised>>
       PROVE  CountInv'
  <2>1. /\ status[t] = "new" /\ status' = [status EXCEPT ![t] = "rejected"]
        /\ pc = "block" /\ pc' = pc /\ landed' = landed
    BY <1>11 DEF RejectTx
  <2>2. status'[t] = "rejected" /\ \A u \in Txs \ {t} : status'[u] = status[u]
    BY <1>1, <2>1 DEF TypeOK
  <2>3. Unraised'
    BY <1>1, <1>11, <2>1, <2>2 DEF Unraised
  <2>4. \A a \in Addresses : Live(a)' = Live(a) /\ Done(a)' = Done(a)
    BY <1>11, <2>1, <2>2 DEF Live, Done
  <2>5. \A a \in Addresses : \A h \in Nat : SignedBy(a, h)' = SignedBy(a, h)
    BY <1>11, <2>1, <2>2 DEF SignedBy
  <2> QED BY <1>2, <1>11, <2>3, <2>4, <2>5, UnmovedCount
<1>12. CASE UNCHANGED acctVars
  BY <1>3, <1>12 DEF acctVars, vars
<1> QED BY <1>4, <1>5, <1>6, <1>7, <1>8, <1>9, <1>10, <1>11, <1>12
        DEF AccountNext, Elsewhere

\* In what is pending, in what is staged and in every committed version, the
\* sequence number that auth has for an account is the number of messages of its
\* transactions that are in that state: those of a transaction that a later
\* module failed are taken back.
THEOREM SequencesCountSuccess == AccountSpec => []SequenceCounts
<1>1. IInv /\ AccInv /\ CountInv => SequenceCounts
  <2> SUFFICES ASSUME AccInv, CountInv PROVE SequenceCounts
    OBVIOUS
  <2>1. ASSUME NEW a \in Addresses, NEW h \in 1 .. CurrentHeight(accounts),
               SequenceAt(Stable(h), a) # None
        PROVE  SequenceAt(Stable(h), a) = SumFunctionOnSet(raised, SignedBy(a, h))
    <3>1. /\ h \in 1 .. Len(accounts.store.vec)
          /\ SequenceAt(Stable(h), a) = accounts.store.vec[h][a]
      BY VersionOfAccount DEF AccInv
    <3> QED BY <2>1, <3>1 DEF CountInv, VersionsCount
  <2>2. ASSUME NEW a \in Addresses PROVE GetAccount(a) = accounts.pending[a]
    <3>1. accounts.pending \in AccState
      BY DEF AccInv, AccTypes, StoreOf
    <3>2. accounts.pending # None
      BY <3>1, AccountAssumption DEF AccState
    <3> QED BY <3>2 DEF GetAccount, SequenceAt, StoreGet, GetState, Pending
  <2> QED BY <2>1, <2>2 DEF SequenceCounts, CountInv, PendingCounts, StagedCounts
<1>2. AccountInit => IInv /\ AccInv /\ CountInv
  BY InitInv, InitAcc, InitCount DEF AccountInit
<1>3. IInv /\ AccInv /\ CountInv /\ [AccountNext]_acctVars => IInv' /\ AccInv' /\ CountInv'
  BY AccountStep, StepInv, StepAcc, StepCount
<1> QED BY <1>1, <1>2, <1>3, PTL DEF AccountSpec
-----------------------------------------------------------------------------
(* prepare_proposal                                                        *)

\* The loop that pops is a function of the number of transactions left.
PopsDown(B, n, g) == g = [i \in 0 .. n |-> IF i \in B /\ i > 0 THEN g[i - 1] ELSE i]

LEMMA PopsDownExists ==
  ASSUME NEW B, NEW n \in Nat
  PROVE  \E g : PopsDown(B, n, g)
<1> DEFINE P == {k \in Nat : \E g : PopsDown(B, k, g)}
<1>1. 0 \in P
  <2> DEFINE g == [i \in 0 .. 0 |-> i]
  <2>1. PopsDown(B, 0, g)
    BY DEF PopsDown
  <2> QED BY <2>1
<1>2. ASSUME NEW k \in Nat, k \in P PROVE k + 1 \in P
  <2>1. PICK g : PopsDown(B, k, g)
    BY <1>2
  <2> DEFINE h == [i \in 0 .. k + 1 |-> IF i \in B /\ i > 0 THEN g[i - 1] ELSE i]
  <2>2. \A i \in 0 .. k : h[i] = g[i]
    BY <2>1 DEF PopsDown
  <2>3. \A i \in 0 .. k + 1 : i > 0 => h[i - 1] = g[i - 1]
    <3> HIDE DEF h
    <3>1. \A i \in 0 .. k + 1 : i > 0 => i - 1 \in 0 .. k
      OBVIOUS
    <3> QED BY <2>2, <3>1
  <2>4. PopsDown(B, k + 1, h)
    BY <2>3 DEF PopsDown
  <2> QED BY <2>4
<1> HIDE DEF P
<1>3. n \in P
  BY <1>1, <1>2, NatSetInduction
<1> QED BY <1>3 DEF P

\* It ends at the greatest number up to n that is not in B, or at none.
LEMMA PopsDownTo ==
  ASSUME NEW B, NEW n \in Nat, NEW g, PopsDown(B, n, g)
  PROVE  /\ g[n] \in 0 .. n /\ (g[n] \in B => g[n] = 0)
         /\ \A k \in g[n] + 1 .. n : k \in B
<1> DEFINE P == {m \in Nat : m <= n =>
                   /\ g[m] \in 0 .. m /\ (g[m] \in B => g[m] = 0)
                   /\ \A k \in g[m] + 1 .. m : k \in B}
<1>1. 0 \in P
  <2>1. g[0] = 0
    BY DEF PopsDown
  <2> QED BY <2>1
<1>2. ASSUME NEW m \in Nat, m \in P PROVE m + 1 \in P
  <2> SUFFICES ASSUME m + 1 <= n
               PROVE  /\ g[m + 1] \in 0 .. m + 1 /\ (g[m + 1] \in B => g[m + 1] = 0)
                      /\ \A k \in g[m + 1] + 1 .. m + 1 : k \in B
    OBVIOUS
  <2>1. /\ g[m] \in 0 .. m /\ (g[m] \in B => g[m] = 0)
        /\ \A k \in g[m] + 1 .. m : k \in B
    BY <1>2
  <2>2. g[m + 1] = IF m + 1 \in B THEN g[m] ELSE m + 1
    BY DEF PopsDown
  <2>3. CASE m + 1 \in B
    <3>1. \A k \in g[m] + 1 .. m + 1 : k = m + 1 \/ k \in g[m] + 1 .. m
      BY <2>1
    <3> QED BY <2>1, <2>2, <2>3, <3>1
  <2>4. CASE m + 1 \notin B
    BY <2>2, <2>4
  <2> QED BY <2>3, <2>4
<1> HIDE DEF P
<1>3. n \in P
  BY <1>1, <1>2, NatSetInduction
<1> QED BY <1>3 DEF P

\* The bytes of a proposal are a number.
LEMMA BytesNat ==
  ASSUME NEW txs \in Seq(Sizes)
  PROVE  Bytes(txs) \in Nat
<1> DEFINE k == Len(txs)
<1>0. k \in Nat /\ DOMAIN txs = 1 .. k /\ \A i \in 1 .. k : txs[i] \in Sizes
  OBVIOUS
<1> HIDE DEF k
<1>1. Bytes(txs) = SumFunctionOnSet(txs, 1 .. k)
  BY <1>0, SumFunctionDef DEF Bytes
<1>2. IsFiniteSet(1 .. k)
  <2>1. 1 \in Int /\ k \in Int
    BY <1>0
  <2> QED BY <2>1, FS_Interval
<1>3. \A i \in 1 .. k : txs[i] \in Nat
  BY <1>0, RequestAssumption
<1> QED BY <1>1, <1>2, <1>3, SumNat

\* What is left is the longest prefix that fits.
LEMMA PoppedFits ==
  ASSUME NEW n \in Nat, NEW txs \in [1 .. n -> Sizes], NEW max \in Nat
  PROVE  /\ Popped(txs, max) \in 0 .. n
         /\ Bytes(SubSeq(txs, 1, Popped(txs, max))) <= max
         /\ \A k \in Popped(txs, max) + 1 .. n : Bytes(SubSeq(txs, 1, k)) > max
<1> DEFINE B == {i \in 0 .. n : Bytes(SubSeq(txs, 1, i)) > max}
           pop == CHOOSE g : g = [i \in 0 .. Len(txs) |->
                    IF Bytes(SubSeq(txs, 1, i)) > max /\ i > 0 THEN g[i - 1] ELSE i]
<1>1. txs \in Seq(Sizes) /\ Len(txs) = n
  OBVIOUS
<1>2. \A g : PopsDown(B, n, g) <=> g = [i \in 0 .. Len(txs) |->
               IF Bytes(SubSeq(txs, 1, i)) > max /\ i > 0 THEN g[i - 1] ELSE i]
  BY <1>1 DEF PopsDown
<1>3. PopsDown(B, n, pop)
  <2>1. \E g : PopsDown(B, n, g)
    BY PopsDownExists
  <2> HIDE DEF B
  <2> QED BY <1>2, <2>1
<1>4. Popped(txs, max) = pop[n]
  BY <1>1 DEF Popped
<1> HIDE DEF pop
<1>5. \A k \in 0 .. n : SubSeq(txs, 1, k) \in Seq(Sizes)
  BY <1>1
<1>6. \A k \in 0 .. n : Bytes(SubSeq(txs, 1, k)) \in Nat
  <2>1. ASSUME NEW k \in 0 .. n PROVE Bytes(SubSeq(txs, 1, k)) \in Nat
    BY <1>5, BytesNat
  <2> QED BY <2>1
<1>7. Bytes(SubSeq(txs, 1, 0)) = 0
  <2>1. SubSeq(txs, 1, 0) = <<>> /\ DOMAIN SubSeq(txs, 1, 0) = {}
    BY <1>1
  <2> QED BY <2>1, SumFunctionDef, SumEmpty DEF Bytes
<1>8. /\ pop[n] \in 0 .. n /\ (pop[n] \in B => pop[n] = 0)
      /\ \A k \in pop[n] + 1 .. n : k \in B
  <2> HIDE DEF B
  <2> QED BY <1>3, PopsDownTo
<1>9. Bytes(SubSeq(txs, 1, pop[n])) <= max
  <2>1. CASE pop[n] \in B
    BY <1>7, <1>8, <2>1
  <2>2. CASE pop[n] \notin B
    BY <1>6, <1>8, <2>2
  <2> QED BY <2>1, <2>2
<1> QED BY <1>4, <1>8, <1>9

\* prepare_proposal keeps a prefix that fits the limit, the longest there is,
\* for any transactions and any limit: 0 if the limit is negative.
THEOREM ProposalsFit == AccountSpec => []ProposalFits
<1>1. ASSUME NEW n \in Nat, NEW txs \in [1 .. n -> Sizes], NEW max \in Int
      PROVE  LET kept == PrepareProposal(txs, max)
                 limit == IF max < 0 THEN 0 ELSE max
             IN  /\ IsPrefix(kept, txs)
                 /\ Bytes(kept) <= limit
                 /\ \A k \in Len(kept) + 1 .. n : Bytes(SubSeq(txs, 1, k)) > limit
  <2> DEFINE limit == IF max < 0 THEN 0 ELSE max
             m == Popped(txs, limit)
  <2>1. limit \in Nat
    OBVIOUS
  <2>2. PrepareProposal(txs, max) = SubSeq(txs, 1, m)
    BY DEF PrepareProposal
  <2> HIDE DEF limit
  <2>3. /\ m \in 0 .. n /\ Bytes(SubSeq(txs, 1, m)) <= limit
        /\ \A k \in m + 1 .. n : Bytes(SubSeq(txs, 1, k)) > limit
    BY <2>1, PoppedFits
  <2> HIDE DEF m
  <2>4. txs \in Seq(Sizes) /\ Len(txs) = n
    OBVIOUS
  <2>5. Len(SubSeq(txs, 1, m)) = m /\ IsPrefix(SubSeq(txs, 1, m), txs)
    BY <2>3, <2>4 DEF IsPrefix
  <2> QED BY <2>2, <2>3, <2>5 DEF limit
<1>2. ProposalFits
  <2> SUFFICES ASSUME NEW n \in 0 .. MaxProposal, NEW txs \in [1 .. n -> Sizes],
                      NEW max \in -1 .. 2 * MaxProposal
               PROVE  LET kept == PrepareProposal(txs, max)
                          limit == IF max < 0 THEN 0 ELSE max
                      IN  /\ IsPrefix(kept, txs)
                          /\ Bytes(kept) <= limit
                          /\ \A k \in Len(kept) + 1 .. n : Bytes(SubSeq(txs, 1, k)) > limit
    BY DEF ProposalFits
  <2>1. n \in Nat /\ max \in Int
    BY RequestAssumption
  <2> QED BY <1>1, <2>1
<1> QED BY <1>2, PTL
=============================================================================
