# Basecoin in TLA+

A verification project for basecoin-rs, the ABCI application that sits between
CometBFT and ibc-rs. The modules are translations of the Rust sources under
`basecoin/` (paths below are relative to that directory); TLC checks them on small
instances and TLAPS proves what they promise for every value of their constants.
`PROJECT.json` records, for every definition that models code, the lines it models.

## The system

| Component | State | Operations | Interacts with |
|---|---|---|---|
| AVL tree (`store/src/avl`) | nodes with cached height, local hash and Merkle hash | insert, remove, get, get_keys, get_proof | is the content of one version of a store |
| `InMemoryStore` (`store/src/impls/in_memory.rs`) | committed versions in a `PrunedVec`, `staged`, `pending` | set, delete, get, apply, reset, commit, prune, current_height, root_hash, get_proof | one per module, one main store |
| `SharedStore` (`store/src/impls/shared.rs`) | an `Arc<RwLock<_>>` around a store | forwards the Store trait, except prune | cloned into modules and gRPC services |
| `RevertibleStore`, `GrowingStore` (`store/src/impls`) | operation log; deleted keys with an empty value | the Store trait over another store, each in its own way | deprecated, not used by the application |
| ABCI application (`app/src`) | main store (module -> root hash), module list | init_chain, begin_block, deliver_tx, commit, info, query, prepare_proposal | calls every module; CometBFT calls it |
| bank (`modules/src/bank`) | balances per account | send_coins, mint_coins, burn_coins, deliver, init, query | asks auth for accounts; used by the transfer application |
| auth (`modules/src/auth`) | accounts with sequence numbers | init, deliver (intercepts every message) | read by bank |
| gov (`modules/src/gov`) | last proposal in the store, `proposal_counter` in memory | deliver: upgrade proposal, client recovery | drives upgrade and ibc through clones of their contexts |
| upgrade (`modules/src/upgrade`) | plan, upgraded client states, upgraded consensus states | begin_block, schedule_upgrade, clear_upgrade_plan, store_* | driven by gov and by the block cycle |
| ibc (`modules/src/ibc`) | clients, consensus states, connections, channels, packets, counters, events | deliver, begin_block, query, host contexts of ibc-rs, listings for relayers | calls the transfer application, which calls bank |
| staking, gRPC services, CLI, runner | none | read-only or wiring | |

ABCI requests are served one at a time: `Service::call` of
`app/src/abci/v0_37/tower_abci.rs` computes the whole response before it returns its
future. The gRPC services run on other threads with clones of the `SharedStore`s and take
only the lock of the store they read. So there are no two writers at a time, but every
`get` and `set` of a store is a point at which a reader can look.

What is hard to get right here, and what each part promises:

* *Failure in the middle.* A transaction has several messages, a message may be written
  to several stores by several modules, and any of them may fail: nothing of it may stay
  (`NoTrace`, `TxAtomic`), nothing else may go (`RevertsOnlyTheTx`, which the code does
  not keep). Auth raises the sequence number of the signer before any other module has
  seen the message (`SequenceCounts`), and what a failure resets must not include the
  accounts of genesis (`AccountsStay`).
* *Several stores, one block.* `commit` walks over the stores. A proof is a chain from a
  value to the module root to the main root at one height (`Lockstep`, `ProofChain`), and
  a query takes its parts from two stores at heights that it works out separately
  (`QueriesVerify`, `TxProvable`).
* *Index arithmetic.* Heights from 1, indices from 0, shifted by pruning (`NoHoles`,
  `LatestIsCurrent`, `SnapshotsAreFinal`).
* *Cached data.* Height and hashes in each AVL node (`CachesFresh`, `ProofsVerify`), local
  copies of balances (`LocalsBalance`, `Conservation`), a counter outside of any store
  (`IdsFresh`).
* *One-shot events.* The upgraded consensus state is written in one block only
  (`NeverEarly`, `ReadyIfUndisturbed`); `begin_block` unwraps what it expects to find
  (`HaltsOnlyAtZero`).
* *Loops at a limit.* `prepare_proposal` drops transactions until the rest fits
  (`ProposalFits`), the reset of a revertible store runs over a log that it appends to
  itself (`ResetEnds`, `LogUndoes`), a growing store never deletes anything
  (`GrowingImplementsVersionedStore`).
* *Readers beside the chain.* A listing for a relayer takes a lock for the keys and one for
  each entry, while transactions come and go (`ListingsHold`); so does whoever adds up
  balances (`NeverOverstated`).
* *Two chains and a relayer.* Messages between chains are lost, repeated, delayed and
  reordered; a receipt on one chain races a timeout on the other, and in one block both
  win (`TwiceOnlyAtExpiry`, `EscrowBacksVouchers`, `RelayerHasWork`); a panic in a packet
  callback ends a chain (`OnlyExpiryPanics`).
* *Panics under the lock.* `deliver_msg` holds the modules' lock while a module handles a
  message; if the module panics, neither apply nor reset follows, and what it has written
  stays pending (`TxSettles` says that no block can contain it).
* *Entries that belong together.* A client, its consensus states, their processed times
  and heights, counters and lists of identifiers are separate entries of one store, the
  host's own consensus states are in none (`MetaWithState`, `LatestStored`,
  `IdsBelowCounters`, `ConnectionsListed`).

The full list, at the lines where it bites, is under `hazards` in `PROJECT.json`.

## Modules

| Module | Models | Remarks |
|---|---|---|
| `StoreOps` | `PrunedVec`, `InMemoryStore`, `Height` as operators on a record | the vocabulary of all other modules; no variables |
| `VersionedStore` | abstract: a view, a savepoint, numbered snapshots | what a store promises |
| `InMemoryStore` | one store under any sequence of calls | refines `VersionedStore` |
| `StoreAdaptors`, `MCStoreAdaptors` | the same calls through a `GrowingStore`, a `RevertibleStore`, or one on top of the other | extends `InMemoryStore`; the growing store refines `VersionedStore`, too |
| `BaseCoinApp` | builder, ABCI handlers that write, one store per module and the main store | composes `StoreOps` records |
| `Accounts` | auth, the first of the modules: the content of its store in every step of `BaseCoinApp` | each action is an action of `BaseCoinApp` with what it does to accounts |
| `AbciRequests` | info, query and prepare_proposal: what they answer in a state of `BaseCoinApp` | operators, no variables |
| `MCBaseCoinApp` | three modules, two signers | `Accounts` and `AbciRequests` together |
| `Ledger` | abstract: atomic transfer, mint, burn | what the bank promises |
| `BankKeeper`, `MCBankKeeper` | bank module, each `get`/`set` and each round of a loop a step | refines `Ledger` |
| `AvlTree` | tree, node and proofs | each recursion of the code is a recursive function over the trees of the keys |
| `Upgrade` | upgrade and gov inside the block cycle | composes two `StoreOps` records |
| `Transfer`, `MCTransfer` | token transfer application and packet bookkeeping on two chains, and the relayers between them | a message is a step |
| `IbcContext` | the IBC host of one chain (clients, connections, channels, counters, host consensus states) inside the block cycle | composes a `StoreOps` record |
| `IbcListings` | the listings of clients, consensus states, connections and channels: the keys in one step, each entry in another | runs beside every step of `IbcContext` |
| `SharedLemmas` | lemmas about induction, sums over finite sets and the operations of `StoreOps`, for the modules below | |
| `InMemoryStoreProofs`, `AvlProofs`, `AppProofs`, `BankProofs`, `UpgradeProofs`, `TransferProofs`, `IbcProofs` | theorems | `AppProofs` is about `BaseCoinApp`, `Accounts` and `AbciRequests`; `InMemoryStoreProofs` about `InMemoryStore` and `StoreAdaptors`; `IbcProofs` about `IbcContext` and `IbcListings` |

A mutating method of the source is an operator from the old record to the new one, so
`StoreCommit` is `apply` followed by the push, as in the code. Definitions whose name has
a comment starting with "Mutant" are plausible mistakes in the definition that follows
them; no specification uses them. `PROJECT.json` pairs each with the property that
notices it.

Abstractions, and why they lose nothing the properties tell apart:

* The content of a store is a function from paths to values (the tree behind it is the
  subject of `AvlTree`, where `IsMap` says exactly that). A root hash is the content it
  commits to, and a hash in `AvlTree` is the tuple of what is hashed: SHA-256 without
  collisions.
* `BaseCoinApp` keeps who wrote instead of what: each writer (constructors, genesis, the
  `begin_block` of a block, a transaction) has a path of its own in each store. Which
  modules write, and which messages fail or panic, is left open. What panics is in
  `Transfer` (the transfer callbacks on a balance that is too low), `Upgrade` and
  `IbcContext` (governance on content that does not decode). After a panic in a message, or
  in the `begin_block` of the upgrade module, every handler that takes the lock on the
  modules panics, so the chain makes no further step; panics of `init_chain` on a genesis
  that does not parse are left out, they leave no behaviour. A `Commit` request comes after
  at least `BeginBlock`, as CometBFT sends them.
* `Accounts` keeps of an account its sequence number. A transaction has one signer for all
  its messages, the one `BaseCoinApp` asks for; which signer is left open, so unknown ones
  are tried everywhere.
* `AbciRequests` asks for the entry of any writer in any module's store. Modules are of
  three kinds, by what their `query` for an entry does: those that prove what they answer (ibc and
  upgrade), one that never does (bank), and the others, which answer nothing. Beside entries at
  a height, modules are asked for what is current: governance for the proposal and upgrade
  for the plan answer what is pending, without proof and whatever the height asked for.
  Requests come one at a time, so a query sees the state between two handlers (`Serving`).
* `StoreAdaptors` takes each round of the loop of `RevertibleStore::reset` as a step. One
  of the two values is the empty vector.
* `BankKeeper` keeps a `Vec<Coin>` as a function from denominations, which is what its
  linear search by denomination makes of it; `MaxAmount` stands for `U256::MAX`.
* `Upgrade` keeps of a client state and of a consensus state that it is there. A plan is
  its height.
* `Transfer` takes a message as one step: `BaseCoinApp` shows that a transaction is all or
  nothing over the stores of ibc and bank. The accounts of a chain are its user and the
  escrow account of the channel; a denomination is the chain it comes from, a voucher is
  that denomination on the other chain. A packet remembers the block it was sent in, and a
  proof shows the state below its height (the root of a block is in the next header).
  Relayers are the choice of what happens next; anyone can be one, so a timeout may be
  proved with the first header that is past it.
* `IbcContext` keeps of a client state its latest height and whether it is frozen; the
  counterparty's clock is its height, so a consensus state is its timestamp; the timestamp
  of a host block is its height. When consensus states expire is left open: an update
  removes those below any height, and recovery takes clients that are not frozen, too, since
  they may have expired. Keys come in the order of their strings, as the tree
  lists them. A handler with an error is `MsgFails`; one with success is one step.

The handlers of the ibc crate, `execute_upgrade_client_proposal` among them, and the ICS23
verifier are outside this repository. They are modelled from how the code here uses and
serves them; `PROJECT.json` marks them external. What this repository contributes to them,
the reads and writes of the contexts, is modelled from its source.

## Runs

| Run | Shows | States | Bounds |
|---|---|---|---|
| `InMemoryStore` | unbroken and final versions, Latest = current height, refinement of `VersionedStore`, by growing stores too; what the log of a revertible store is good for | 246,238 | 2 paths, 2 values, 3 versions: a version on either side of a prune; logs of up to 3 operations: one overwritten, one inserted, one taken back |
| `BaseCoinApp` | lock step, proof chain, atomicity, no trace, settling, proofs that verify, sequence numbers, accounts, proposals | 138,750 | 3 modules (one that intercepts everything, one whose store another module writes to), 2 transactions of up to 2 messages, a signer with and one without account, 3 blocks: success and failure in either order, in one block or two, and a block after both; queries for every height from 0 to one too many; proposals of up to 4 transactions |
| `BankKeeper` | conservation, readers never see too much, exact transfers, refinement of `Ledger` | 123,056 | 3 accounts, 2 denominations, amounts to 3, lists of up to 2 coins: overflow, a denomination listed twice, a missing one, failure at the second coin |
| `AvlTree` | map, caches, proofs, insertions keep the balance | 4,805 | 6 keys, 2 values: all rotations, removal of inner nodes with two children |
| `Upgrade` | no halt but at height 0, plans backed, no early consensus state, fresh ids | 33,557 | plans from 0 to 4, 4 blocks, 3 proposals: replaced, refused, rolled back and late plans |
| `Transfer` | packets received and refunded only in the block of their expiry, vouchers backed but for those, no other panic of receipts and timeouts, relayers see what is left | 106,113 | 2 interchangeable chains, 2 packets each, 3 blocks, timeouts that pass and that do not: round trips, packets received and refunded, chains that such a packet halts, repeats, timeouts at every point, error acknowledgements |
| `IbcClients` | consensus states and update meta together, latest state kept | 216,223 | 2 clients, 3 counterparty heights, 3 blocks: updates in every order, pruning, freezing and recovery in committed and rolled back transactions |
| `IbcHandshake` | identifiers below counters, connection lists, listings that hold | 493,182 | 1 client, 2 connections, 1 channel, 2 counterparty heights, 2 blocks, one listing at a time: every step of the chain between any two of its reads |

Type invariants are theorems (below) and are not among the runs' properties. That of
`AvlTree` is part of its inductive invariant.

Four runs show that the code does not do what a comment of the repository says. Each
checks one property and TLC finds a behaviour against it.

* `BaseCoinAppRevert` (`RevertsOnlyTheTx`): if the first transaction of a block fails,
  the writes of `begin_block`, and in the first block those of `init_chain` and of the
  constructors, are reset with it, because only a successful transaction applies them.
  Among them are the identifier counters of the IBC module, without which no client,
  connection or channel can be created any more, and the upgraded consensus state.
* `BankSelfSend` (`Conservation`): a transfer to oneself stores the credited copy over
  the debited one.
* `TransferUnpaid` (`ChecksInExecute`): a transfer that its sender cannot pay panics under
  the write lock of `deliver_msg`.
* `IbcPrevious` (`PrevReachesConsensus`): with consensus states at 3 and 10 a header for 5
  makes `prev_consensus_state` panic; the key before that of its match is update meta.

Limits of the passing runs that are worth knowing:

* A packet can be both received and refunded. `host_height` (`ibc/impls.rs:476`) is the
  last committed height while a block runs, so a packet with timeout height `t` is still
  received in block `t + 1`. The header of block `t + 1` is past the timeout and shows the
  state after block `t`, which has no receipt: a relayer that holds it gets the packet
  refunded, whether the receipt came before or comes after. TLC reaches such states in the
  run `Transfer`, and from there chains whose escrow is empty when a voucher comes home or
  a transfer is refunded, which halts them. Nothing in the code prevents it and nothing in
  the repository says that it cannot happen, so the properties say exactly how far it goes:
  `TwiceOnlyAtExpiry`, that it is this one block and no other; `EscrowBacksVouchers`, that
  escrow is short of the coins of such packets and of nothing else; `OnlyExpiryPanics`,
  that no receipt or timeout panics unless a packet was received in that block.
* `InsertKeepsBalance` is about insertions. After a removal the taller child may be
  balanced, `balance_node` then takes the double rotation, and from eleven keys on
  `Balanced` fails. The tree stays a correct map with correct proofs, as the theorems
  say for any number of keys.
* A plan at height 0 is accepted before the first commit and stops the chain in the second
  block: `begin_block` finds it with `checked_sub(1)` of 0. `HaltsOnlyAtZero` says that
  nothing else does. Whether the ibc crate decodes such a plan is not visible here.
* The bank answers a query for a height that does not exist (with nothing), and `query`
  then unwraps the main store's proof for it and panics. `QueriesVerify` says exactly
  when that happens. The governance query for the proposal and the upgrade query for the plan
  answer what is pending at any height, and panic in the same way once there is one. An
  answer with proof never does: the main store has every height its module has.
* A prune beyond the last version panics in `drain` before anything has changed, and poisons
  the store's lock; it has no step in `InMemoryStore`.
* `local_hash` hashes key and value one after the other, without a length. `LocalHash` is a
  pair, so what `AvlTree` says of roots and proofs is up to where the key ends: with another
  boundary the same bytes have the same hash.
* `RevertibleStore::reset` takes an overwriting set back by `self.set`, which logs again:
  the loop never ends, as the FIXME there says, so `ResetEnds` is about logs of insertions.
  A delete leaves nothing in the log (`LogUndoes` and `ResetEnds` exclude it).
  `GrowingStore::set` panics on an empty value, also when the old value of a deleted path is
  put back.
* A listing that reads its keys in the middle of a transaction that fails later shows what
  never happened. `ListingsHold` is about all others; consensus states can be pruned between
  the reading of the keys and of the entries, but never the latest of a client.
* Genesis is a `HashMap`, so the shape of the first tree and the first root hash depend on
  the order of its iteration. A state stands for its root in every module but `AvlTree`.
* `ReadyIfUndisturbed` excludes a failed transaction or a new proposal in the last block
  before an upgrade: either takes the upgraded consensus state with it.
* `SharedStore` has no `prune`, so through the handle the modules hold `prune` answers Ok
  and removes nothing. The application never calls it; `InMemoryStore` models the store
  behind the handle, which prunes.
* The events of a transfer are emitted into the IBC context and come out with the next
  core IBC message. Events are not modelled.

There are two liveness properties. `TxSettles` assumes weak fairness of the steps of a
`deliver_tx` that has been entered, `ResetEnds` of those of a `reset` that has been
entered: both are straight code with loops and without a wait in them, the first on the
thread that serves the consensus connection. The end of a `deliver_tx` may be a panic, at
every message; `TxSettles` says that the transaction is then left as it is for good, and
that nothing, no commit in particular, comes after. No fairness is assumed of CometBFT: blocks and
transactions may stop coming, which is why the runs of `BaseCoinApp`, `Upgrade`,
`IbcContext`, `IbcListings` and `Transfer` do not check for deadlock (their bounds end every
behaviour, too, and so does a panic); a `reset` of `StoreAdaptors` may end in a panic as
well. Delivery of packets depends on relayers and is not stated as liveness:
`RelayerHasWork` says instead that what is open is always visible to them.

## Proofs

All theorems hold for every value of the constants that satisfies the named assumptions
(`StoreAssumption`, `AppAssumption`, `AccountAssumption`, `RequestAssumption`,
`BankAssumption`, `KeysAssumption`, `ValsAssumption`, `RemovableAssumption`,
`UpgradeAssumption`, `StateAssumption`, `TransferAssumption`, `IbcAssumption`,
`NoneAssumption`), which say that bounds are numbers, that `None` is not a value, that there
are two chains, that no module is of two kinds, that auth is the module whose store genesis
writes the accounts to, that there are finitely many accounts and transactions, and that the
keys of a tree are finitely many numbers (whose order stands for that of the keys), its
values positive numbers. One assumption is a hypothesis of the theorems that need it,
since a run shows that they are false otherwise: `NoSelfSend` (no route leads from an account
to itself).

* `SharedLemmas`: what each store operation does to types, heights and readable versions,
  which every proof about stores cites. The induction theorems of the library take an
  operator as a parameter, which the provers here cannot instantiate, but that every set of
  numbers has a least element is a statement about a set. From it follow induction over
  numbers and over finite sets, stated with the set of what has the property, and from these
  what a sum over a finite set is: that it exists, what it is without one of its members, and
  what it is after one of its terms has changed.
* `InMemoryStoreProofs`: the type invariant is inductive; `NoHoles` and `LatestIsCurrent`
  follow from it and the arithmetic of indices; `SnapshotsAreFinal` takes one step per
  action. `StoreRefinesVersionedStore` shows that each call is a step of `VersionedStore`
  or changes none of its variables: the versions after a commit are the old ones with one
  more, those after a prune a restriction. `GrowingStoreRefines` reuses those steps: what a
  growing store shows is the store below it with empty values hidden, a set of an empty
  value is a delete of what is shown, and hiding commutes with every other call.
  `LogLeadsBack` is about a fold over a log that a reset shortens and lengthens. Its
  invariant says that, as long as nothing has been deleted, every logged path is visible and
  an insertion is the first operation on its path (so that taking back the last operation
  is one unfolding of the fold), or that the reset has panicked, or that it is `Stuck` in the
  loop that the FIXME describes and that it cannot leave.
* `AvlProofs`: the trees are the sets `Shapes[d]` of those at most `d` nodes deep, so a
  property that the empty tree has, and a node whose two children have it, is one of all
  trees (`ForestInduction`). For each recursive function of `AvlTree` it is first shown that
  such a function exists, from which follows what it is at a node. A tree is in `Avl` if in
  every node the keys are on their sides and height and hashes are those of the children;
  `Entries` is the set of pairs it stands for. A rotation leads from an `Unsettled` node,
  whose own caches may be stale, to a tree in `Avl` with the same entries, and one lemma for
  each operation says what it does to the entries: `InsertLemma`, `RemoveLemma` (over
  `RemoveLeftmostLemma` and `RemoveRightmostLemma` for inner nodes), `GetLemma`,
  `GetKeysLemma`. So `AvlInv`, that the tree is in `Avl` and its entries are those of the
  map, is inductive, and `TreeIsMap` and `CachesAreFresh` follow. The functions are defined
  on trees no deeper than there are keys; `AvlInTrees` shows that no other tree is in `Avl`,
  since the keys on a path are distinct. For `ProofsAlwaysVerify` the walk of the verifier is
  followed op by op (`RootOfMore`): what proves an entry of a child proves, with the op that
  `get_proof_rec` pushes, one of the node (`LiftLeft`, `LiftRight`), and the neighbours of an
  absent key are the closest on the path. None of this depends on balance.
  `InsertionKeepsBalance` is about a step from a balanced tree: an insertion makes a subtree
  at most one higher and then, if it is two or more high, with one side of its root higher
  than the other (`Grown`). That excludes the level child for which `balance_node` picks the
  double rotation, and is what fails after a removal.
* `AppProofs`: the properties are not inductive. The invariant adds, for every
  transaction, what `pending`, `staged` and the committed versions of each store hold of
  it in each state of the handler, and that the main store's pending roots are those of
  the stores a running `commit` has passed. `Lockstep` is needed for `ProofChain`, since
  the height of a module's root is only known through it.
  `QueriesVerify` and `TxProvable` follow from that invariant in every state, since between
  two handlers both stores have the same heights. `AccountsRunTheApp` shows that each step
  of `Accounts` is one of `BaseCoinApp` or none, so the invariant holds there, too.
  `AccountsStay` needs more: an empty state or all genesis accounts are in `pending` and in
  `staged` (nothing in between), a transaction at its last message has a signer with an
  account, so the first one that succeeds makes the accounts staged, and no reset can take
  them away after that. `SequencesCountSuccess` counts, in each state of the store, the
  messages of the transactions that were applied to it, in `staged` and the committed
  versions without the one that runs, in `pending` with it; the term of the running
  transaction grows with each message, and a reset takes exactly that term back.
  `ProposalsFit` is an induction over the number of transactions popped.
* `BankProofs`: the invariant relates the local copies to the stored balances at every
  step of a call. `BankRefinesLedger` assumes `NoSelfSend`; `BankSelfSend` shows that it
  must. A transfer is done, for the ledger, when its source is stored. For
  `MoneyIsConserved` the sum of the balances is not invariant: between the two writes of a
  transfer, what was debited is in no balance, so the invariant counts that credit
  separately; it is never negative, which is why readers see too little then and never too
  much (`ReadersNeverOverstate`). `TransfersAreExact` says after each coin how far the local
  copies are from the start, coin by coin of the list done so far.
* `UpgradeProofs`: a plan in `pending`, in `staged` and in any version has its client
  state with it, although a new plan clears the states of its own height only. That makes
  the unwrap in `begin_block` safe. A plan at height 0 is never ahead of the current height
  once a block is committed, so the panic on it can only come in the second block.
  `UndisturbedBlocksAreReady` follows the consensus state from the `begin_block` that writes
  it to the commit of the same block, past every transaction that succeeds.
* `TransferProofs`: no theorem restricts relayers. For `PacketsSettleOnce` the invariant
  says that a packet is received no later than the block after its timeout height, and that
  a refunded one has, at that time, a block of the receiver past the timeout behind it and
  no receipt below that block; so what is left for both is the one block in between. That
  no balance falls below zero, and that a refund pays a packet that was sent, takes an
  invariant about commitments (`OpenSent`). `EscrowIsFull` balances, for each denomination,
  escrow less vouchers with the packets under way less those paid twice (`Balanced`); a step
  changes one balance and one term of one sum by the same amount: a send adds a packet under
  way, a receipt or a refund takes it away or, if the other has paid already, adds it to
  those paid twice. For `OnlyExpiryCanPanic` escrow covers a packet under way unless it is
  short, it is short only by packets paid twice, and these were received in the block
  after their timeout height (`AtExpiry`), which stays true of them. `RelayersFindWork` needs
  none of this: a receipt comes with an acknowledgement, and a commitment stays until one
  arrives.
* `IbcProofs`: the properties are about every state of the store, pending, staged and
  committed, and are proved one state at a time: a state is `Good` if it has no gaps in its
  identifiers, its consensus states have their update meta, and so on. The handlers lead
  from good states to good states, and `apply`, `reset` and `commit` only copy states that
  are good already, so rolling back is never a case of its own. `LatestStored` is not
  inductive: a client could be created over consensus states that are there already.
  `NoOrphans` adds that a client that does not exist has none. The processed heights of a
  state are heights of committed host blocks, which later blocks do not change although
  they are not in the store. `ListingsAreWhole` needs a relation of two states: every message
  `Extends` the state it finds, so that what a listing has seen stays `Alive`, in `pending`
  while the transaction runs and, once applied, in the `staged` state a later failure goes
  back to. That the keys are numbered without gaps is `IdsBelowCounters` at the moment they
  were read.

Checked by TLC only: `TxSettles` and `ResetEnds`, which are liveness properties under
fairness. Every other property of the passing runs is a theorem, too.

## Not modelled, and the plan

Left out for good: the v0.38 adaptor (its `finalize_block` is unimplemented), staking (no
state, not registered), CLI, configuration and key handling (I/O), encoding and the parsing
of paths, coins and amounts. The gRPC services that read one entry or answer constants have
nothing to interleave with.

Also left out: ordered channels (receive and acknowledgement sequences), since the transfer
application opens unordered ones only; events. The events of a transfer come out with
whichever core message succeeds next, and an honest header that arrives out of order freezes
a client (`LooksWrong`), because `next_consensus_state` finds an earlier state. Nothing in
the repository states what either should do, so no property is about them.

Planned, in this order:

1. `Transfer` with messages that are not atomic, over the block cycle of `BaseCoinApp`.
2. `AvlTree`: dependence of the root on the order of insertion; how far removals can take
   the tree out of balance.
3. Ordered channels in the host context, for applications other than token transfer.
