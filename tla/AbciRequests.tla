----------------------------- MODULE AbciRequests -----------------------------
(***************************************************************************)
(* The ABCI requests that change no state (app/src/abci/v0_37/impls.rs):   *)
(* info, query and prepare_proposal, on the states of BaseCoinApp.  They   *)
(* come over the same service as those of the consensus connection, which  *)
(* serves one at a time, so they are answered between two handlers and     *)
(* never in the middle of one.                                             *)
(***************************************************************************)
EXTENDS BaseCoinApp, SequencesExt

CONSTANTS
  Proving,      \* modules that answer for an entry with proof: ibc, upgrade
  Plain,        \* those that answer for an entry without: the bank
  Current,      \* those that answer for what is current, without proof and
                \* whatever the height: gov (the proposal), upgrade (the plan)
  Sizes,        \* bytes of a transaction in a proposal
  MaxProposal   \* bound: transactions offered for a proposal

ASSUME RequestAssumption ==
  /\ Proving \subseteq Modules /\ Plain \subseteq Modules /\ Current \subseteq Modules
  /\ Proving \cap Plain = {}
  /\ Sizes \subseteq Nat
  /\ MaxProposal \in Nat

Serving == pc \in {"start", "idle", "block"}

\* info: height and root, under one lock on the main store.
Info == [height |-> CurrentHeight(main), root |-> RootHash(main)]

-----------------------------------------------------------------------------
(* query.  What is asked of a module: an entry, by its writer, at a height, *)
(* or the one that is current.                                             *)

Asks == {"entry", "current"}

Error == [kind |-> "error"]
Panics == [kind |-> "panic"]

\* Mutant: the data is that of the latest version.
QueryProvingLatest(m, height, w, prove) ==
  LET data == StoreGet(stores[m], Latest, w)
  IN  IF data = None \/ (prove /\ GetState(stores[m], height) = None)
      THEN Error
      ELSE [kind |-> "ok", data |-> data,
            root |-> IF prove THEN GetState(stores[m], height) ELSE None]

\* Ibc::query, Upgrade::query: the proof first, which there is for every
\* height the store has, then the data.  A proof is the state it commits to.
QueryProving(m, height, w, prove) ==
  LET data == StoreGet(stores[m], height, w)
  IN  IF data = None \/ (prove /\ GetState(stores[m], height) = None)
      THEN Error
      ELSE [kind |-> "ok", data |-> data,
            root |-> IF prove THEN GetState(stores[m], height) ELSE None]

\* Bank::query for an account that exists: its balances at the height asked for,
\* none where there is no entry or no such height, and never a proof.
QueryPlain(m, height, w) ==
  [kind |-> "ok", data |-> StoreGet(stores[m], height, w), root |-> None]

\* Governance::query for the proposal, Upgrade::query for the plan: what is
\* pending, whatever the height asked for, and never a proof.
QueryCurrent(m, w) ==
  LET data == StoreGet(stores[m], Pending, w)
  IN  IF data = None THEN Error ELSE [kind |-> "ok", data |-> data, root |-> None]

\* The first module that does not answer NotHandled.
Answer(m, ask, height, w, prove) ==
  CASE ask = "entry" /\ m \in Proving -> QueryProving(m, height, w, prove)
    [] ask = "entry" /\ m \in Plain -> QueryPlain(m, height, w)
    [] ask = "current" /\ m \in Current -> QueryCurrent(m, w)
    [] OTHER -> Error

\* Mutant: the proof of the main store is that of its latest version.
QueryLatestRoot(m, ask, raw, w, prove) ==
  LET height == HeightFrom(raw)
      answer == Answer(m, ask, height, w, prove)
  IN  IF answer = Error THEN Error
      ELSE IF prove /\ GetState(main, Latest) = None THEN Panics
      ELSE [kind |-> "ok", data |-> answer.data, root |-> answer.root,
            shown |-> StoreGet(main, Latest, m), at |-> GetState(main, Latest),
            height |-> CurrentHeight(main)]

\* query: the module's answer and, with `prove`, the main store's proof of the
\* root of that module, at the height asked for; the answer is labelled with
\* the current height.
Query(m, ask, raw, w, prove) ==
  LET height == HeightFrom(raw)
      answer == Answer(m, ask, height, w, prove)
  IN  IF answer = Error THEN Error
      ELSE IF prove /\ GetState(main, height) = None THEN Panics
      ELSE [kind |-> "ok", data |-> answer.data, root |-> answer.root,
            shown |-> StoreGet(main, height, m), at |-> GetState(main, height),
            height |-> CurrentHeight(main)]

-----------------------------------------------------------------------------
(* prepare_proposal.  A transaction is its length.                         *)

Bytes(txs) == SumFunction(txs)

\* Mutant: stops when the total is one too many.
PoppedOffByOne(txs, max) ==
  LET pop[n \in 0 .. Len(txs)] ==
        IF Bytes(SubSeq(txs, 1, n)) > max + 1 /\ n > 0 THEN pop[n - 1] ELSE n
  IN  pop[Len(txs)]

\* The number of transactions left when `pop` has brought the total down.
Popped(txs, max) ==
  LET pop[n \in 0 .. Len(txs)] ==
        IF Bytes(SubSeq(txs, 1, n)) > max /\ n > 0 THEN pop[n - 1] ELSE n
  IN  pop[Len(txs)]

\* A negative limit does not convert to usize and counts as 0.
PrepareProposal(txs, max) ==
  SubSeq(txs, 1, Popped(txs, IF max < 0 THEN 0 ELSE max))

-----------------------------------------------------------------------------
\* What `query` answers with `prove`.  An entry is what was committed at that
\* height (the current one for 0, as the label says), and that of a proving
\* module chains up: the main store's version at that height holds the root the
\* module's proof leads to, for the latest one the root that info reports.  The
\* unwrap of the main store's proof panics exactly at a height the main store
\* does not have, and exactly if a module answers for it all the same: the bank
\* does for every account, gov and upgrade do as soon as a proposal or a plan
\* is pending; a module that proves its answer never does, since between any
\* two handlers the main store has every height a module store has.
QueriesVerify ==
  Serving =>
    \A m \in Modules, ask \in Asks, raw \in 0 .. MaxHeight + 1, w \in Writers :
      LET answer == Query(m, ask, raw, w, TRUE)
          h == IF raw = 0 THEN CurrentHeight(main) ELSE raw
      IN  /\ answer = Panics <=>
               /\ h \notin 1 .. CurrentHeight(main)
               /\ \/ ask = "entry" /\ m \in Plain
                  \/ ask = "current" /\ m \in Current /\ stores[m].pending[w] # None
          /\ answer.kind = "ok" =>
               /\ answer.at = GetState(main, Stable(h))
               /\ raw = 0 => answer.height = h /\ answer.at = Info.root
               /\ ask = "entry" =>
                    /\ answer.data = StoreGet(stores[m], Stable(h), w)
                    /\ m \in Proving => /\ answer.root = answer.shown
                                        /\ answer.root[w] = answer.data

\* The same for the clients of a transaction: its writes can be proved at a
\* height if and only if it succeeded in that block or an earlier one, however
\* long ago, and those of a failed transaction at no height.
TxProvable ==
  Serving =>
    \A t \in Txs : \A m \in touched[t] \cap Proving, h \in 1 .. MaxHeight :
      Query(m, "entry", h, Tx(t), TRUE) # Error
        <=> status[t] = "ok" /\ h \in landed[t] .. CurrentHeight(main)

\* prepare_proposal keeps the order, fits the limit, and drops no transaction
\* more than it has to: the longest prefix that fits.  (It does not look at
\* the state, so that of the start is enough to ask it.)
ProposalFits ==
  pc = "start" =>
    \A n \in 0 .. MaxProposal :
      \A txs \in [1 .. n -> Sizes], max \in -1 .. 2 * MaxProposal :
        LET kept == PrepareProposal(txs, max)
            limit == IF max < 0 THEN 0 ELSE max
        IN  /\ IsPrefix(kept, txs)
            /\ Bytes(kept) <= limit
            /\ \A k \in Len(kept) + 1 .. n : Bytes(SubSeq(txs, 1, k)) > limit
=============================================================================
