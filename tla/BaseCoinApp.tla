----------------------------- MODULE BaseCoinApp -----------------------------
(***************************************************************************)
(* The ABCI application (app/src/builder.rs, app/src/abci/v0_37/impls.rs): *)
(* one store per module, a main store that maps each module to the root    *)
(* of its store, and the block cycle                                       *)
(*                                                                         *)
(*   InitChain, (BeginBlock, DeliverTx*, Commit)*                          *)
(*                                                                         *)
(* over them.  ABCI requests are served one at a time: `call` of           *)
(* tower_abci.rs computes the whole response before it returns.  The gRPC  *)
(* services run beside it on clones of the stores and take no other lock   *)
(* than that of the store they read, so they can look in between two       *)
(* messages of a transaction, before the reset of a failed one and between *)
(* the commits of two stores: those are the steps of this module.          *)
(*                                                                         *)
(* What a module writes is abstracted to who wrote it: every writer (the   *)
(* construction of the app, the genesis, the begin_block of a block, a     *)
(* transaction) has a path of its own in each store.  Which modules write, *)
(* and which messages fail, is left open.                                  *)
(***************************************************************************)
EXTENDS StoreOps

CONSTANTS
  NumModules,   \* modules are numbered in the order of `add_module`
  Touches,      \* Touches[m]: the stores the module m may write in `deliver`
  BuildWrites,  \* the modules whose constructor writes to its store
  InitWrites,   \* the modules whose `init` writes genesis state
  BeginWrites,  \* the modules whose `begin_block` may write
  Txs,          \* the transactions that are delivered
  MaxMsgs,      \* bound: messages of one transaction
  MaxHeight     \* bound: committed blocks

Modules == 1 .. NumModules

Build == <<"build", 0>>
Genesis == <<"genesis", 0>>
Begin(b) == <<"begin", b>>
Tx(t) == <<"tx", t>>

Writers == {Build, Genesis} \cup {Begin(b) : b \in 1 .. MaxHeight}
                            \cup {Tx(t) : t \in Txs}

\* The value behind every path that has been written.
Mark == "written"

State == [Writers -> {Mark, None}]
Roots == State \cup {None}

ASSUME AppAssumption ==
  /\ NumModules \in Nat \ {0}
  /\ Touches \in [Modules -> SUBSET Modules]
  /\ BuildWrites \subseteq Modules
  /\ InitWrites \subseteq Modules
  /\ BeginWrites \subseteq Modules
  /\ MaxMsgs \in Nat \ {0}
  /\ MaxHeight \in Nat
  /\ None # Mark /\ None \notin Txs
  /\ None \notin State
  /\ None \notin [Modules -> Roots]

VARIABLES
  stores,   \* stores[m]: the InMemoryStore of module m
  main,     \* the main store: module |-> root of its store
  pc,       \* what the consensus connection is doing
  tx,       \* the transaction being delivered
  left,     \* its messages not yet delivered
  next,     \* the next module whose store `commit` commits
  status,   \* status[t]: what became of transaction t
  touched,  \* touched[t]: the stores t has written to
  landed    \* landed[t]: the block t was delivered in

vars == <<stores, main, pc, tx, left, next, status, touched, landed>>

Block == CurrentHeight(main) + 1

\* The stores after the writer w has written to those of the modules in W.
Written(W, w) == [m \in Modules |-> IF m \in W THEN StoreSet(stores[m], w, Mark)
                                    ELSE stores[m]]

-----------------------------------------------------------------------------
\* Builder::new, module_store, add_module, build: every store is new, and a
\* module's constructor may have written to it already.
Init ==
  /\ stores = [m \in Modules |->
                 IF m \in BuildWrites
                 THEN StoreSet(NewStore([w \in Writers |-> None]), Build, Mark)
                 ELSE NewStore([w \in Writers |-> None])]
  /\ main = NewStore([m \in Modules |-> None])
  /\ pc = "start"
  /\ tx = None
  /\ left = 0
  /\ next = 1
  /\ status = [t \in Txs |-> "new"]
  /\ touched = [t \in Txs |-> {}]
  /\ landed = [t \in Txs |-> 0]

\* init_chain: every module writes its genesis; nothing is applied.
InitChain ==
  /\ pc = "start"
  /\ stores' = Written(InitWrites, Genesis)
  /\ pc' = "idle"
  /\ UNCHANGED <<main, tx, left, next, status, touched, landed>>

\* begin_block: modules may write; nothing is applied.
BeginBlock ==
  /\ pc = "idle"
  /\ CurrentHeight(main) < MaxHeight
  /\ \E W \in SUBSET BeginWrites : stores' = Written(W, Begin(Block))
  /\ pc' = "block"
  /\ UNCHANGED <<main, tx, left, next, status, touched, landed>>

\* deliver_tx returns before the first message: the bytes do not decode, the
\* first signer is missing or invalid, or there is no message.
RejectTx(t) ==
  /\ pc = "block"
  /\ status[t] = "new"
  /\ status' = [status EXCEPT ![t] = "rejected"]
  /\ UNCHANGED <<stores, main, pc, tx, left, next, touched, landed>>

\* deliver_tx enters its loop over the messages.
DeliverTx(t) ==
  /\ pc = "block"
  /\ status[t] = "new"
  /\ status' = [status EXCEPT ![t] = "running"]
  /\ landed' = [landed EXCEPT ![t] = Block]
  /\ tx' = t
  /\ left' \in 1 .. MaxMsgs
  /\ pc' = "msgs"
  /\ UNCHANGED <<stores, main, next, touched>>

\* deliver_msg offers the message to the modules in order; those before the
\* one that consumes it may have intercepted it and written, too.
Intercepted(m) == UNION {Touches[i] : i \in 1 .. m}

MsgOk ==
  /\ pc = "msgs"
  /\ left > 0
  /\ \E m \in Modules : \E W \in SUBSET Intercepted(m) :
       /\ stores' = Written(W, Tx(tx))
       /\ touched' = [touched EXCEPT ![tx] = @ \cup W]
  /\ left' = left - 1
  /\ UNCHANGED <<main, pc, tx, next, status, landed>>

\* A module returns an error, or all of them answer NotHandled.
MsgErr ==
  /\ pc = "msgs"
  /\ left > 0
  /\ \E m \in Modules : \E W \in SUBSET Intercepted(m) :
       /\ stores' = Written(W, Tx(tx))
       /\ touched' = [touched EXCEPT ![tx] = @ \cup W]
  /\ pc' = "failed"
  /\ UNCHANGED <<main, tx, left, next, status, landed>>

\* A module panics: deliver_msg holds the lock on the modules, which the panic
\* poisons.  Neither apply nor reset follows, and every request that takes that
\* lock panics from then on; the services go on reading the stores.
MsgPanics ==
  /\ pc = "msgs"
  /\ left > 0
  /\ \E m \in Modules : \E W \in SUBSET Intercepted(m) :
       /\ stores' = Written(W, Tx(tx))
       /\ touched' = [touched EXCEPT ![tx] = @ \cup W]
  /\ pc' = "panicked"
  /\ UNCHANGED <<main, tx, left, next, status, landed>>

\* Mutant: only the store of the first module is reset.
ResetFirst ==
  /\ pc = "failed"
  /\ stores' = [stores EXCEPT ![1] = StoreReset(@)]
  /\ main' = StoreReset(main)
  /\ status' = [status EXCEPT ![tx] = "failed"]
  /\ pc' = "block"
  /\ left' = 0
  /\ UNCHANGED <<tx, next, touched, landed>>

\* The error path of deliver_tx: reset every module store and the main store.
ResetAll ==
  /\ pc = "failed"
  /\ stores' = [m \in Modules |-> StoreReset(stores[m])]
  /\ main' = StoreReset(main)
  /\ status' = [status EXCEPT ![tx] = "failed"]
  /\ pc' = "block"
  /\ left' = 0
  /\ UNCHANGED <<tx, next, touched, landed>>

\* Mutant: a transaction that succeeds is not applied.
ApplyNone ==
  /\ pc = "msgs"
  /\ left = 0
  /\ status' = [status EXCEPT ![tx] = "ok"]
  /\ pc' = "block"
  /\ UNCHANGED <<stores, main, tx, left, next, touched, landed>>

\* Mutant: the transaction is applied with one message left.
ApplyOffByOne ==
  /\ pc = "msgs"
  /\ left = 1
  /\ stores' = [m \in Modules |-> StoreApply(stores[m])]
  /\ main' = StoreApply(main)
  /\ status' = [status EXCEPT ![tx] = "ok"]
  /\ pc' = "block"
  /\ UNCHANGED <<tx, left, next, touched, landed>>

\* The success path of deliver_tx: apply every module store and the main one.
ApplyAll ==
  /\ pc = "msgs"
  /\ left = 0
  /\ stores' = [m \in Modules |-> StoreApply(stores[m])]
  /\ main' = StoreApply(main)
  /\ status' = [status EXCEPT ![tx] = "ok"]
  /\ pc' = "block"
  /\ UNCHANGED <<tx, left, next, touched, landed>>

\* Mutant: the root is taken before the store is committed.
CommitModuleStaleRoot ==
  /\ pc \in {"block", "commit"}
  /\ next <= NumModules
  /\ stores' = [stores EXCEPT ![next] = StoreCommit(@)]
  /\ main' = StoreSet(main, next, RootHash(stores[next]))
  /\ next' = next + 1
  /\ pc' = "commit"
  /\ UNCHANGED <<tx, left, status, touched, landed>>

\* commit, one round of its loop: commit the store of the next module and
\* write its new root to the main store.
CommitModule ==
  /\ pc \in {"block", "commit"}
  /\ next <= NumModules
  /\ LET committed == StoreCommit(stores[next])
     IN  /\ stores' = [stores EXCEPT ![next] = committed]
         /\ main' = StoreSet(main, next, RootHash(committed))
  /\ next' = next + 1
  /\ pc' = "commit"
  /\ UNCHANGED <<tx, left, status, touched, landed>>

\* Mutant: the main store is not committed.
CommitMainSkipped ==
  /\ pc = "commit"
  /\ next = NumModules + 1
  /\ next' = 1
  /\ pc' = "idle"
  /\ UNCHANGED <<stores, main, tx, left, status, touched, landed>>

\* commit, after the loop: commit the main store.
CommitMain ==
  /\ pc = "commit"
  /\ next = NumModules + 1
  /\ main' = StoreCommit(main)
  /\ next' = 1
  /\ pc' = "idle"
  /\ UNCHANGED <<stores, tx, left, status, touched, landed>>

Next ==
  \/ InitChain
  \/ BeginBlock
  \/ \E t \in Txs : RejectTx(t) \/ DeliverTx(t)
  \/ MsgOk
  \/ MsgErr
  \/ MsgPanics
  \/ ResetAll
  \/ ApplyAll
  \/ CommitModule
  \/ CommitMain

\* A handler that was entered runs to its end or to a panic: its loops are
\* straight code on the thread that serves the consensus connection.
Spec == /\ Init
        /\ [][Next]_vars
        /\ WF_vars(MsgOk \/ MsgErr \/ MsgPanics \/ ResetAll \/ ApplyAll)

-----------------------------------------------------------------------------
\* Type invariant.
TypeOK ==
  /\ stores \in [Modules -> StoreOf(State, {0})]
  /\ main \in StoreOf([Modules -> Roots], {0})
  /\ pc \in {"start", "idle", "block", "msgs", "failed", "panicked", "commit"}
  /\ tx \in Txs \cup {None}
  /\ left \in 0 .. MaxMsgs
  /\ next \in 1 .. NumModules + 1
  /\ status \in [Txs -> {"new", "rejected", "running", "ok", "failed"}]
  /\ touched \in [Txs -> SUBSET Modules]
  /\ landed \in [Txs -> 0 .. MaxHeight]

\* A query answers with a value of a module's store and a proof of the main
\* store at the same height: at every height the main store has, each module
\* has a version, and the main store holds exactly its root.
ProofChain ==
  \A h \in 1 .. CurrentHeight(main) : \A m \in Modules :
    /\ GetState(stores[m], Stable(h)) # None
    /\ StoreGet(main, Stable(h), m) = GetState(stores[m], Stable(h))

\* The module stores and the main store count the same blocks; only while
\* commit runs are the modules it has passed one ahead.
Lockstep ==
  \A m \in Modules :
    CurrentHeight(stores[m]) =
      CurrentHeight(main) + (IF pc = "commit" /\ m < next THEN 1 ELSE 0)

\* Transactions are atomic and durable across all stores: a committed version
\* of a store a transaction has written to contains its writes if and only if
\* the transaction succeeded and the version is not older than its block.
TxAtomic ==
  \A t \in Txs : \A m \in touched[t] : \A h \in 1 .. CurrentHeight(stores[m]) :
    StoreGet(stores[m], Stable(h), Tx(t)) = Mark
      <=> status[t] = "ok" /\ h >= landed[t]

\* A transaction that failed leaves nothing behind in the state that later
\* transactions, checks and pending-height reads see.
NoTrace ==
  \A t \in Txs : status[t] = "failed" =>
    \A m \in Modules : stores[m].pending[Tx(t)] = None

\* Every transaction whose first message is delivered is settled for good, unless
\* a module panics over it: then it stays unsettled for good, and no block is
\* committed any more that could contain what it has left in the stores.
TxSettles ==
  \A t \in Txs : status[t] = "running" ~>
    \/ [](status[t] \in {"ok", "failed"})
    \/ [](pc = "panicked" /\ tx = t /\ status[t] = "running")

\* "it failed, the store _reverts_ the transaction changes" (in_memory.rs),
\* "reset changes from other messages in this tx" (impls.rs): the reset after
\* a failed transaction takes back what that transaction wrote, nothing else.
RevertsOnlyTheTx ==
  [][pc = "failed" /\ pc' = "block" =>
       \A m \in Modules : \A w \in Writers \ {Tx(tx)} :
         stores'[m].pending[w] = stores[m].pending[w]]_vars
=============================================================================
