----------------------------- MODULE BankKeeper -----------------------------
(***************************************************************************)
(* The bank module (modules/src/bank/impls.rs): `send_coins`, `mint_coins` *)
(* and `burn_coins` of BankBalanceKeeper, and `deliver` of a MsgSend.      *)
(*                                                                         *)
(* One call runs at a time (deliver_msg holds the lock on the module       *)
(* list), but the gRPC balance service reads the pending balances whenever *)
(* the store's own lock is free.  Every `get` and `set` takes that lock    *)
(* once, so each is a step here, and so is each round of the loop over the *)
(* coins, which works on local copies.                                     *)
(*                                                                         *)
(* A `Vec<Coin>` holds a denomination at most once; it is a function from  *)
(* denominations to amounts, Absent where there is no such coin.  An       *)
(* account without a record reads as one without coins.                    *)
(***************************************************************************)
EXTENDS Integers, Sequences, FiniteSets, Functions

CONSTANTS
  Accounts,
  Known,       \* the accounts the auth module knows
  Denoms,
  Absent,      \* no coin of a denomination, no account of a call
  MaxAmount,   \* U256::MAX
  Routes,      \* the pairs <<from, to>> of the transfers that are made
  Coins,       \* the coins that can appear in a message
  MaxCoins,    \* bound: coins in one message
  Genesis      \* the balances `init` mints

Balances == [Denoms -> (0 .. MaxAmount) \cup {Absent}]
Coin == [denom : Denoms, amount : 0 .. MaxAmount]

ASSUME BankAssumption ==
  /\ IsFiniteSet(Accounts)
  /\ Known \subseteq Accounts
  /\ MaxAmount \in Nat
  /\ Absent \notin 0 .. MaxAmount
  /\ Routes \subseteq Accounts \X Accounts
  /\ Coins \subseteq Coin
  /\ MaxCoins \in Nat
  /\ Genesis \in [Accounts -> Balances]

VARIABLES
  bal,      \* the pending balances in the store
  pc,       \* where the running call is
  call,     \* its kind ("send", "mint", "burn"), accounts and coins
  todo,     \* the coins its loop has not handled yet
  src, dst, \* its local copies of the balances
  result,   \* the answer of the last call
  issued    \* issued[d]: what was minted of d since genesis, less what was burned

vars == <<bal, pc, call, todo, src, dst, result, issued>>

NoCoins == [d \in Denoms |-> Absent]
NoCall == [kind |-> "none", from |-> Absent, to |-> Absent, coins |-> <<>>]

\* The amount behind a coin that may be missing.
Val(b, d) == IF b[d] = Absent THEN 0 ELSE b[d]

Messages == UNION {[1 .. n -> Coins] : n \in 0 .. MaxCoins}

-----------------------------------------------------------------------------
\* Module::init mints the genesis balances account by account; its order does
\* not matter here, as each account is minted to once.
Init ==
  /\ bal = Genesis
  /\ pc = "idle"
  /\ call = NoCall
  /\ todo = <<>>
  /\ src = NoCoins
  /\ dst = NoCoins
  /\ result = "ok"
  /\ issued = [d \in Denoms |-> 0]

Start(kind, f, t, coins) ==
  /\ pc = "idle"
  /\ call' = [kind |-> kind, from |-> f, to |-> t, coins |-> coins]
  /\ todo' = coins
  /\ result' = "running"
  /\ UNCHANGED <<bal, issued>>

\* The call returns: its locals are gone.
Return(answer) ==
  /\ pc' = "idle"
  /\ call' = NoCall
  /\ todo' = <<>>
  /\ src' = NoCoins
  /\ dst' = NoCoins
  /\ result' = answer

\* deliver of a MsgSend whose sender has no account: NonExistentAccount.
DeliverUnknown(f) ==
  /\ pc = "idle"
  /\ f \notin Known
  /\ result' = "err"
  /\ UNCHANGED <<bal, pc, call, todo, src, dst, issued>>

\* send_coins, the read of the source.  `deliver` calls it after it has found
\* the sender's account; the token transfer application calls it directly.
SendReadSrc(f, t, coins) ==
  /\ Start("send", f, t, coins)
  /\ src' = bal[f]
  /\ pc' = "read_dst"
  /\ UNCHANGED dst

\* send_coins, the read of the destination.
SendReadDst ==
  /\ pc = "read_dst"
  /\ dst' = bal[call.to]
  /\ pc' = "loop"
  /\ UNCHANGED <<bal, call, todo, src, result, issued>>

\* mint_coins reads the balances of the account it mints to.
MintRead(a, coins) ==
  /\ Start("mint", a, a, coins)
  /\ dst' = bal[a]
  /\ pc' = "loop"
  /\ UNCHANGED src

\* burn_coins reads the balances of the account it burns from.
BurnRead(a, coins) ==
  /\ Start("burn", a, a, coins)
  /\ src' = bal[a]
  /\ pc' = "loop"
  /\ UNCHANGED dst

Debits == call.kind \in {"send", "burn"}
Credits == call.kind \in {"send", "mint"}

\* The checks of one round: the coin is there and large enough, and the
\* destination stays within U256.
Enough(c) == src[c.denom] # Absent /\ src[c.denom] >= c.amount
Fits(c) == Val(dst, c.denom) <= MaxAmount - c.amount

Payable(c) == (Debits => Enough(c)) /\ (Credits => Fits(c))

\* Mutant: the loop stops after the first coin.
LoopFirstCoin ==
  /\ pc = "loop"
  /\ todo # <<>>
  /\ LET c == Head(todo)
     IN  /\ Payable(c)
         /\ src' = IF Debits THEN [src EXCEPT ![c.denom] = @ - c.amount] ELSE src
         /\ dst' = IF Credits
                   THEN [dst EXCEPT ![c.denom] = Val(dst, c.denom) + c.amount]
                   ELSE dst
  /\ todo' = <<>>
  /\ UNCHANGED <<bal, pc, call, result, issued>>

\* Mutant: the source is debited in a copy that is dropped.
LoopLostDebit ==
  /\ pc = "loop"
  /\ todo # <<>>
  /\ LET c == Head(todo)
     IN  /\ Payable(c)
         /\ dst' = IF Credits
                   THEN [dst EXCEPT ![c.denom] = Val(dst, c.denom) + c.amount]
                   ELSE dst
  /\ todo' = Tail(todo)
  /\ UNCHANGED <<bal, pc, call, src, result, issued>>

\* Mutant: burning stores the balance in every round of its loop.
LoopWriteThrough ==
  /\ pc = "loop"
  /\ todo # <<>>
  /\ LET c == Head(todo)
     IN  /\ Payable(c)
         /\ src' = IF Debits THEN [src EXCEPT ![c.denom] = @ - c.amount] ELSE src
         /\ dst' = IF Credits
                   THEN [dst EXCEPT ![c.denom] = Val(dst, c.denom) + c.amount]
                   ELSE dst
  /\ bal' = IF call.kind = "burn" THEN [bal EXCEPT ![call.from] = src'] ELSE bal
  /\ todo' = Tail(todo)
  /\ UNCHANGED <<pc, call, result, issued>>

\* One round of the loop.
LoopCoin ==
  /\ pc = "loop"
  /\ todo # <<>>
  /\ LET c == Head(todo)
     IN  /\ Payable(c)
         /\ src' = IF Debits THEN [src EXCEPT ![c.denom] = @ - c.amount] ELSE src
         /\ dst' = IF Credits
                   THEN [dst EXCEPT ![c.denom] = Val(dst, c.denom) + c.amount]
                   ELSE dst
  /\ todo' = Tail(todo)
  /\ UNCHANGED <<bal, pc, call, result, issued>>

\* InsufficientSourceFunds or DestFundOverflow: the local copies are dropped.
LoopErr ==
  /\ pc = "loop"
  /\ todo # <<>>
  /\ ~Payable(Head(todo))
  /\ Return("err")
  /\ UNCHANGED <<bal, issued>>

\* Mutant: the destination is stored first.
SendSetDstFirst ==
  /\ pc = "loop"
  /\ todo = <<>>
  /\ call.kind = "send"
  /\ bal' = [bal EXCEPT ![call.to] = dst]
  /\ pc' = "set_dst"
  /\ UNCHANGED <<call, todo, src, dst, result, issued>>

\* send_coins stores the source after the loop, ...
SendSetSrc ==
  /\ pc = "loop"
  /\ todo = <<>>
  /\ call.kind = "send"
  /\ bal' = [bal EXCEPT ![call.from] = src]
  /\ pc' = "set_dst"
  /\ UNCHANGED <<call, todo, src, dst, result, issued>>

\* Mutant: the destination is not stored.
SendSetDstSkipped ==
  /\ pc = "set_dst"
  /\ Return("ok")
  /\ UNCHANGED <<bal, issued>>

\* ... and then the destination.
SendSetDst ==
  /\ pc = "set_dst"
  /\ bal' = [bal EXCEPT ![call.to] = dst]
  /\ Return("ok")
  /\ UNCHANGED issued

MintSet ==
  /\ pc = "loop"
  /\ todo = <<>>
  /\ call.kind = "mint"
  /\ bal' = [bal EXCEPT ![call.to] = dst]
  /\ issued' = [d \in Denoms |-> issued[d] + Val(dst, d) - Val(bal[call.to], d)]
  /\ Return("ok")

BurnSet ==
  /\ pc = "loop"
  /\ todo = <<>>
  /\ call.kind = "burn"
  /\ bal' = [bal EXCEPT ![call.from] = src]
  /\ issued' = [d \in Denoms |-> issued[d] + Val(src, d) - Val(bal[call.from], d)]
  /\ Return("ok")

Next ==
  \/ \E f \in Accounts : DeliverUnknown(f)
  \/ \E r \in Routes, coins \in Messages : SendReadSrc(r[1], r[2], coins)
  \/ \E a \in Accounts, coins \in Messages : MintRead(a, coins) \/ BurnRead(a, coins)
  \/ SendReadDst
  \/ LoopCoin
  \/ LoopErr
  \/ SendSetSrc
  \/ SendSetDst
  \/ MintSet
  \/ BurnSet

Spec == Init /\ [][Next]_vars

-----------------------------------------------------------------------------
\* Type invariant.
TypeOK ==
  /\ bal \in [Accounts -> Balances]
  /\ pc \in {"idle", "read_dst", "loop", "set_dst"}
  /\ call \in [kind : {"none", "send", "mint", "burn"},
               from : Accounts \cup {Absent}, to : Accounts \cup {Absent},
               coins : Seq(Coin)]
  /\ todo \in Seq(Coin)
  /\ src \in Balances
  /\ dst \in Balances
  /\ result \in {"ok", "err", "running"}
  /\ issued \in [Denoms -> Int]

\* All there is of a denomination, as a reader of the store would add it up.
Supply(d) == SumFunction([a \in Accounts |-> Val(bal[a], d)])
GenesisSupply(d) == SumFunction([a \in Accounts |-> Val(Genesis[a], d)])

\* Money is conserved: between two calls the balances add up to the genesis
\* plus what was minted minus what was burned, whatever was sent and whatever
\* failed half-way through a list of coins.
Conservation ==
  pc = "idle" =>
    \A d \in Denoms : Supply(d) = GenesisSupply(d) + issued[d]

\* A reader that looks in between the two stores of a transfer can miss coins
\* that are on their way, but never sees more than there are: the source is
\* stored first.
NeverOverstated ==
  \A d \in Denoms : Supply(d) <= GenesisSupply(d) + issued[d]

\* What the coins of a message ask for of one denomination.
Due(coins, d) ==
  SumFunction([i \in DOMAIN coins |->
                 IF coins[i].denom = d THEN coins[i].amount ELSE 0])

\* A transfer that is about to be stored takes from the source and gives to
\* the destination exactly what its coins ask for, also when a denomination
\* is listed twice or is new to the destination.
ExactTransfer ==
  call.kind = "send" /\ pc = "loop" /\ todo = <<>> =>
    \A d \in Denoms :
      /\ Val(src, d) = Val(bal[call.from], d) - Due(call.coins, d)
      /\ Val(dst, d) = Val(bal[call.to], d) + Due(call.coins, d)

\* While a transfer runs, its local copies hold together exactly what the
\* store holds for its two accounts, and nothing has left the source twice:
\* a call that fails now has stored nothing, and one that succeeds loses and
\* creates nothing.
LocalsBalance ==
  call.kind = "send" /\ pc = "loop" =>
    \A d \in Denoms :
      /\ Val(src, d) + Val(dst, d) = Val(bal[call.from], d) + Val(bal[call.to], d)
      /\ Val(src, d) <= Val(bal[call.from], d)

\* The bank implements the ledger; a transfer counts as done when its source
\* is stored.
LedgerBal ==
  [a \in Accounts |->
     LET b == IF pc = "set_dst" /\ a = call.to THEN dst ELSE bal[a]
     IN  [d \in Denoms |-> Val(b, d)]]

Abs == INSTANCE Ledger WITH bal <- LedgerBal

\* Refinement: every call is one transfer, minting or burning, or nothing.
ImplementsLedger == Abs!Spec
=============================================================================
