------------------------------- MODULE Accounts -------------------------------
(***************************************************************************)
(* The auth module (modules/src/auth/impls.rs) inside the block cycle of   *)
(* BaseCoinApp: the content of the first module's store, an account with a *)
(* sequence number per address.  Auth comes first, intercepts every        *)
(* message, raises the number of the signer and answers NotHandled; a      *)
(* message of a signer without account ends there.  Each action is the     *)
(* action of BaseCoinApp with what it does to the accounts.                *)
(***************************************************************************)
EXTENDS BaseCoinApp, FiniteSets, Functions

CONSTANTS Addresses,    \* signers
          GenesisAddrs  \* those that genesis gives an account

ASSUME AccountAssumption ==
  /\ GenesisAddrs \subseteq Addresses
  /\ None \notin Addresses /\ None \notin Nat
  /\ None \notin [Addresses -> Nat \cup {None}]
  /\ 1 \in InitWrites \ BuildWrites
  /\ IsFiniteSet(Txs)

VARIABLES
  accounts,     \* the accounts in the store of module 1, by address
  signer,       \* signer[t]: the first signer of t
  raised        \* raised[t]: the messages of t that auth has passed on

acctVars == <<vars, accounts, signer, raised>>

SequenceAt(height, a) == StoreGet(accounts, height, a)

\* AuthAccountReader::get_account, AuthAccountKeeper::set_account
GetAccount(a) == SequenceAt(Pending, a)
SetAccount(a, n) == accounts' = StoreSet(accounts, a, n)

-----------------------------------------------------------------------------
AccountInit ==
  /\ Init
  /\ accounts = NewStore([a \in Addresses |-> None])
  /\ signer = [t \in Txs |-> None]
  /\ raised = [t \in Txs |-> 0]

\* Auth::init: an account for every address of the genesis state.
InitAccounts ==
  /\ InitChain
  /\ accounts' = [accounts EXCEPT !.pending =
                    [a \in Addresses |-> IF a \in GenesisAddrs THEN 0 ELSE @[a]]]
  /\ UNCHANGED <<signer, raised>>

SignedTx(t) ==
  /\ DeliverTx(t)
  /\ \E a \in Addresses : signer' = [signer EXCEPT ![t] = a]
  /\ UNCHANGED <<accounts, raised>>

\* Auth::deliver for a known signer; the message goes on to other modules.
Raise ==
  LET a == signer[tx]
  IN  /\ GetAccount(a) # None
      /\ SetAccount(a, GetAccount(a) + 1)
      /\ raised' = [raised EXCEPT ![tx] = @ + 1]
      /\ stores'[1].pending[Tx(tx)] = Mark
      /\ UNCHANGED signer

PassedMsgOk == MsgOk /\ Raise

PassedMsgErr == MsgErr /\ Raise

PassedMsgPanics == MsgPanics /\ Raise

\* "unknown signer": an error of the first module, before anything is written.
UnknownSigner ==
  /\ pc = "msgs"
  /\ GetAccount(signer[tx]) = None
  /\ UNCHANGED <<stores, accounts, signer, raised>>
  /\ MsgErr

\* Mutant: the accounts are not among the stores that are reset.
ResetOthers == ResetAll /\ UNCHANGED <<accounts, signer, raised>>

ResetAccounts ==
  /\ ResetAll
  /\ accounts' = StoreReset(accounts)
  /\ UNCHANGED <<signer, raised>>

\* Mutant: the accounts are not among the stores that are applied.
ApplyOthers == ApplyAll /\ UNCHANGED <<accounts, signer, raised>>

ApplyAccounts ==
  /\ ApplyAll
  /\ accounts' = StoreApply(accounts)
  /\ UNCHANGED <<signer, raised>>

CommitAccounts ==
  /\ CommitModule
  /\ accounts' = IF next = 1 THEN StoreCommit(accounts) ELSE accounts
  /\ UNCHANGED <<signer, raised>>

\* What does not concern the accounts.
Elsewhere ==
  /\ BeginBlock \/ (\E t \in Txs : RejectTx(t)) \/ CommitMain
  /\ UNCHANGED <<accounts, signer, raised>>

AccountNext ==
  \/ InitAccounts
  \/ \E t \in Txs : SignedTx(t)
  \/ PassedMsgOk
  \/ PassedMsgErr
  \/ PassedMsgPanics
  \/ UnknownSigner
  \/ ResetAccounts
  \/ ApplyAccounts
  \/ CommitAccounts
  \/ Elsewhere

\* deliver_tx, once entered, runs to its end or to a panic.
AccountSpec ==
  /\ AccountInit
  /\ [][AccountNext]_acctVars
  /\ WF_acctVars(\/ PassedMsgOk \/ PassedMsgErr \/ PassedMsgPanics
                 \/ UnknownSigner \/ ResetAccounts \/ ApplyAccounts)

-----------------------------------------------------------------------------
\* The transactions of a that have succeeded up to block h, those that have
\* succeeded at all, and these with the one that is running.
SignedBy(a, h) == {t \in Txs : signer[t] = a /\ status[t] = "ok" /\ landed[t] <= h}
Done(a) == {t \in Txs : signer[t] = a /\ status[t] = "ok"}
Live(a) == {t \in Txs : signer[t] = a /\ status[t] \in {"ok", "running"}}

\* The sequence of an account is the number of messages of its transactions, in
\* what auth reads, in what a failing transaction is reset to, and in every
\* committed version up to that block: messages of transactions that failed
\* later, in another module, count nowhere once they are reset.
SequenceCounts ==
  \A a \in Addresses :
    /\ GetAccount(a) # None => GetAccount(a) = SumFunctionOnSet(raised, Live(a))
    /\ accounts.staged[a] # None =>
         accounts.staged[a] = SumFunctionOnSet(raised, Done(a))
    /\ \A h \in 1 .. CurrentHeight(accounts) :
         SequenceAt(Stable(h), a) # None =>
           SequenceAt(Stable(h), a) = SumFunctionOnSet(raised, SignedBy(a, h))

\* Genesis accounts are there from the first transaction that succeeds on, in
\* every version since; an account can only be lost with a genesis that no
\* transaction has applied yet, and no transaction succeeds without one.
AccountsStay ==
  \A t \in Txs : status[t] = "ok" =>
    /\ signer[t] \in GenesisAddrs
    /\ \A a \in GenesisAddrs :
         /\ GetAccount(a) # None
         /\ \A h \in landed[t] .. CurrentHeight(accounts) : SequenceAt(Stable(h), a) # None
=============================================================================
