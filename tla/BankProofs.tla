----------------------------- MODULE BankProofs -----------------------------
(***************************************************************************)
(* Proofs about module BankKeeper, for every set of accounts and denomina- *)
(* tions, every list of coins and every largest amount: the local copies   *)
(* of a running call stay in balance with the store, transfers are exact,  *)
(* and as long as nobody sends to himself money is conserved, also in what *)
(* a reader sees in between, and the bank implements the ledger.           *)
(***************************************************************************)
EXTENDS BankKeeper, SharedLemmas

(* The inductive invariant.  Between the reads and the stores of a call,   *)
(* its local copies differ from the store by what the loop has moved.      *)

\* The step a call has reached fits its kind, and its accounts exist.
CallShape ==
  /\ pc = "idle" => call.kind = "none"
  /\ pc # "idle" => call.from \in Accounts /\ call.to \in Accounts
  /\ pc \in {"read_dst", "set_dst"} => call.kind = "send"
  /\ pc = "loop" => call.kind \in {"send", "mint", "burn"}

\* Before its destination is read, a transfer has an exact copy of its source.
SrcFresh == pc = "read_dst" => src = bal[call.from]

\* Minting has only added to its copy, burning only taken from it.
OneSided ==
  pc = "loop" =>
    /\ call.kind = "mint" => \A d \in Denoms : Val(bal[call.to], d) <= Val(dst, d)
    /\ call.kind = "burn" => \A d \in Denoms : Val(src, d) <= Val(bal[call.from], d)

IInv == TypeOK /\ CallShape /\ SrcFresh /\ OneSided /\ LocalsBalance

\* A coin that is missing counts as zero, so every amount is a U256.
LEMMA ValTyped ==
  ASSUME NEW b \in Balances, NEW d \in Denoms
  PROVE  Val(b, d) \in 0 .. MaxAmount /\ Val(b, d) \in Nat /\ MaxAmount \in Nat
  BY BankAssumption DEF Balances, Val

\* Subtracting from a coin that is there and large enough.
LEMMA DebitLemma ==
  ASSUME NEW b \in Balances, NEW e \in Denoms, NEW n \in 0 .. MaxAmount,
         b[e] # Absent, b[e] >= n
  PROVE  /\ [b EXCEPT ![e] = @ - n] \in Balances
         /\ Val([b EXCEPT ![e] = @ - n], e) = Val(b, e) - n
         /\ \A d \in Denoms \ {e} : Val([b EXCEPT ![e] = @ - n], d) = Val(b, d)
<1>1. b[e] \in 0 .. MaxAmount /\ MaxAmount \in Nat /\ Absent \notin 0 .. MaxAmount
  BY BankAssumption DEF Balances
<1>2. b[e] - n \in 0 .. MaxAmount
  BY <1>1
<1>3. [b EXCEPT ![e] = @ - n] \in Balances
  BY <1>2 DEF Balances
<1>4. [b EXCEPT ![e] = @ - n][e] = b[e] - n
  BY DEF Balances
<1>5. \A d \in Denoms \ {e} : [b EXCEPT ![e] = @ - n][d] = b[d]
  BY DEF Balances
<1> QED BY <1>1, <1>2, <1>3, <1>4, <1>5 DEF Val

\* Adding to a coin, or adding a coin, within the largest amount.
LEMMA CreditLemma ==
  ASSUME NEW b \in Balances, NEW e \in Denoms, NEW n \in 0 .. MaxAmount,
         Val(b, e) <= MaxAmount - n
  PROVE  /\ [b EXCEPT ![e] = Val(b, e) + n] \in Balances
         /\ Val([b EXCEPT ![e] = Val(b, e) + n], e) = Val(b, e) + n
         /\ \A d \in Denoms \ {e} : Val([b EXCEPT ![e] = Val(b, e) + n], d) = Val(b, d)
<1> DEFINE x == Val(b, e) + n
<1>1. x \in 0 .. MaxAmount /\ Absent \notin 0 .. MaxAmount
  BY ValTyped, BankAssumption
<1> HIDE DEF x
<1>2. [b EXCEPT ![e] = x] \in Balances
  BY <1>1 DEF Balances
<1>3. [b EXCEPT ![e] = x][e] = x /\ \A d \in Denoms \ {e} : [b EXCEPT ![e] = x][d] = b[d]
  BY DEF Balances
<1>4. Val([b EXCEPT ![e] = x], e) = x
  BY <1>1, <1>3 DEF Val
<1>5. \A d \in Denoms \ {e} : Val([b EXCEPT ![e] = x], d) = Val(b, d)
  BY <1>3 DEF Val
<1> QED BY <1>2, <1>4, <1>5 DEF x

\* The messages are finite sequences of coins, and no coins are balances.
LEMMA MessageFacts ==
  /\ Messages \subseteq Seq(Coin)
  /\ NoCoins \in Balances
  /\ NoCall \in [kind : {"none", "send", "mint", "burn"},
                 from : Accounts \cup {Absent}, to : Accounts \cup {Absent},
                 coins : Seq(Coin)]
  /\ <<>> \in Seq(Coin)
<1>1. Messages \subseteq Seq(Coin)
  <2> SUFFICES ASSUME NEW n \in 0 .. MaxCoins, NEW m \in [1 .. n -> Coins]
               PROVE  m \in Seq(Coin)
    BY DEF Messages
  <2>1. n \in Nat /\ m \in [1 .. n -> Coin]
    BY BankAssumption
  <2> QED BY <2>1, SeqDef
<1>2. NoCoins \in Balances
  BY DEF NoCoins, Balances
<1>3. <<>> \in Seq(Coin)
  OBVIOUS
<1> QED BY <1>1, <1>2, <1>3 DEF NoCall

\* The genesis balances and an idle bank satisfy the invariant.
LEMMA InitInv == Init => IInv
<1> SUFFICES ASSUME Init PROVE IInv
  OBVIOUS
<1>1. TypeOK
  BY MessageFacts, BankAssumption DEF Init, TypeOK
<1> QED BY <1>1 DEF Init, IInv, CallShape, SrcFresh, OneSided, LocalsBalance, NoCall

\* A call that starts: what its action leaves to be shown.
LEMMA StartTyped ==
  ASSUME IInv, NEW kind \in {"send", "mint", "burn"}, NEW f \in Accounts,
         NEW t \in Accounts, NEW coins \in Messages, Start(kind, f, t, coins)
  PROVE  /\ bal' = bal /\ bal \in [Accounts -> Balances]
         /\ call'.kind = kind /\ call'.from = f /\ call'.to = t
         /\ call' \in [kind : {"none", "send", "mint", "burn"},
                       from : Accounts \cup {Absent}, to : Accounts \cup {Absent},
                       coins : Seq(Coin)]
         /\ todo' \in Seq(Coin)
         /\ result' \in {"ok", "err", "running"}
         /\ issued' \in [Denoms -> Int]
  BY MessageFacts DEF Start, IInv, TypeOK

\* A call that returns leaves the bank idle.
LEMMA ReturnInv ==
  ASSUME IInv, bal' \in [Accounts -> Balances], issued' \in [Denoms -> Int],
         NEW answer \in {"ok", "err"}, Return(answer)
  PROVE  IInv'
<1>1. TypeOK'
  BY MessageFacts DEF Return, TypeOK
<1>2. pc' = "idle" /\ call'.kind = "none"
  BY DEF Return, NoCall
<1> QED BY <1>1, <1>2 DEF IInv, CallShape, SrcFresh, OneSided, LocalsBalance

\* What one round of the loop does to the copies.
LEMMA LoopFacts ==
  ASSUME IInv, LoopCoin
  PROVE  LET c == Head(todo)
             e == c.denom
             n == c.amount
         IN
         /\ c \in Coin /\ e \in Denoms /\ n \in 0 .. MaxAmount /\ n \in Nat
         /\ Tail(todo) \in Seq(Coin)
         /\ Debits => /\ src' \in Balances
                      /\ Val(src', e) = Val(src, e) - n
                      /\ \A d \in Denoms \ {e} : Val(src', d) = Val(src, d)
         /\ Credits => /\ dst' \in Balances
                       /\ Val(dst', e) = Val(dst, e) + n
                       /\ \A d \in Denoms \ {e} : Val(dst', d) = Val(dst, d)
<1> DEFINE c == Head(todo)
           e == c.denom
           n == c.amount
<1>1. /\ c \in Coin /\ e \in Denoms /\ n \in 0 .. MaxAmount /\ n \in Nat
      /\ Tail(todo) \in Seq(Coin)
  <2>1. c \in Coin /\ Tail(todo) \in Seq(Coin)
    BY DEF IInv, TypeOK, LoopCoin
  <2> QED BY <2>1, BankAssumption DEF Coin
<1>2. /\ pc = "loop" /\ pc' = pc /\ bal' = bal /\ call' = call
      /\ issued' = issued /\ result' = result /\ todo' = Tail(todo)
      /\ Payable(c)
      /\ src' = IF Debits THEN [src EXCEPT ![e] = @ - n] ELSE src
      /\ dst' = IF Credits THEN [dst EXCEPT ![e] = Val(dst, e) + n] ELSE dst
  BY DEF LoopCoin
<1>3. /\ src \in Balances /\ dst \in Balances /\ bal \in [Accounts -> Balances]
      /\ call.from \in Accounts /\ call.to \in Accounts
      /\ call.kind \in {"send", "mint", "burn"}
  BY <1>2 DEF IInv, TypeOK, CallShape
<1> HIDE DEF c, e, n
<1>4. Debits => /\ src' \in Balances
                /\ Val(src', e) = Val(src, e) - n
                /\ \A d \in Denoms \ {e} : Val(src', d) = Val(src, d)
  <2> SUFFICES ASSUME Debits
               PROVE  /\ src' \in Balances
                      /\ Val(src', e) = Val(src, e) - n
                      /\ \A d \in Denoms \ {e} : Val(src', d) = Val(src, d)
    OBVIOUS
  <2>1. src[e] # Absent /\ src[e] >= n
    BY <1>2 DEF Payable, Enough, e, n
  <2>2. src' = [src EXCEPT ![e] = @ - n]
    BY <1>2
  <2> QED BY <1>1, <1>3, <2>1, <2>2, DebitLemma
<1>5. Credits => /\ dst' \in Balances
                 /\ Val(dst', e) = Val(dst, e) + n
                 /\ \A d \in Denoms \ {e} : Val(dst', d) = Val(dst, d)
  <2> SUFFICES ASSUME Credits
               PROVE  /\ dst' \in Balances
                      /\ Val(dst', e) = Val(dst, e) + n
                      /\ \A d \in Denoms \ {e} : Val(dst', d) = Val(dst, d)
    OBVIOUS
  <2>1. Val(dst, e) <= MaxAmount - n
    BY <1>2 DEF Payable, Fits, e, n
  <2>2. dst' = [dst EXCEPT ![e] = Val(dst, e) + n]
    BY <1>2
  <2> QED BY <1>1, <1>3, <2>1, <2>2, CreditLemma
<1> QED BY <1>1, <1>4, <1>5 DEF c, e, n

\* One round of the loop keeps the copies in balance.
LEMMA LoopInv == IInv /\ LoopCoin => IInv'
<1> SUFFICES ASSUME IInv, LoopCoin PROVE IInv'
  OBVIOUS
<1> DEFINE c == Head(todo)
           e == c.denom
           n == c.amount
<1>1. /\ c \in Coin /\ e \in Denoms /\ n \in 0 .. MaxAmount /\ n \in Nat
      /\ Tail(todo) \in Seq(Coin)
  BY LoopFacts
<1>2. /\ pc = "loop" /\ pc' = pc /\ bal' = bal /\ call' = call
      /\ issued' = issued /\ result' = result /\ todo' = Tail(todo)
      /\ Payable(c)
      /\ src' = IF Debits THEN [src EXCEPT ![e] = @ - n] ELSE src
      /\ dst' = IF Credits THEN [dst EXCEPT ![e] = Val(dst, e) + n] ELSE dst
  BY DEF LoopCoin
<1>3. /\ src \in Balances /\ dst \in Balances /\ bal \in [Accounts -> Balances]
      /\ call.from \in Accounts /\ call.to \in Accounts
      /\ call.kind \in {"send", "mint", "burn"}
  BY <1>2 DEF IInv, TypeOK, CallShape
<1>4. Debits => /\ src' \in Balances
                /\ Val(src', e) = Val(src, e) - n
                /\ \A d \in Denoms \ {e} : Val(src', d) = Val(src, d)
  BY LoopFacts
<1>5. Credits => /\ dst' \in Balances
                 /\ Val(dst', e) = Val(dst, e) + n
                 /\ \A d \in Denoms \ {e} : Val(dst', d) = Val(dst, d)
  BY LoopFacts
<1> HIDE DEF c, e, n
<1>6. TypeOK'
  <2>1. src' \in Balances /\ dst' \in Balances
    BY <1>2, <1>3, <1>4, <1>5
  <2> QED BY <1>1, <1>2, <2>1 DEF IInv, TypeOK
<1>7. CallShape' /\ SrcFresh'
  BY <1>2 DEF IInv, CallShape, SrcFresh
<1>8. \A d \in Denoms : /\ Val(src, d) \in Nat /\ Val(dst, d) \in Nat
                        /\ Val(bal[call.from], d) \in Nat
                        /\ Val(bal[call.to], d) \in Nat
  BY <1>3, ValTyped
<1>9. OneSided'
  <2> SUFFICES ASSUME NEW d \in Denoms
               PROVE  /\ call.kind = "mint" => Val(bal[call.to], d) <= Val(dst', d)
                      /\ call.kind = "burn" => Val(src', d) <= Val(bal[call.from], d)
    BY <1>2 DEF OneSided
  <2>1. CASE call.kind = "mint"
    <3>1. Credits /\ Val(bal[call.to], d) <= Val(dst, d)
      BY <1>2, <2>1 DEF Credits, IInv, OneSided
    <3> QED BY <1>1, <1>5, <1>8, <2>1, <3>1
  <2>2. CASE call.kind = "burn"
    <3>1. Debits /\ Val(src, d) <= Val(bal[call.from], d)
      BY <1>2, <2>2 DEF Debits, IInv, OneSided
    <3> QED BY <1>1, <1>4, <1>8, <2>2, <3>1
  <2> QED BY <2>1, <2>2
<1>10. LocalsBalance'
  <2> SUFFICES ASSUME call.kind = "send", NEW d \in Denoms
               PROVE  /\ Val(src', d) + Val(dst', d) =
                           Val(bal[call.from], d) + Val(bal[call.to], d)
                      /\ Val(src', d) <= Val(bal[call.from], d)
    BY <1>2 DEF LocalsBalance
  <2>1. Debits /\ Credits
    BY DEF Debits, Credits
  <2>2. /\ Val(src, d) + Val(dst, d) = Val(bal[call.from], d) + Val(bal[call.to], d)
        /\ Val(src, d) <= Val(bal[call.from], d)
    BY <1>2 DEF IInv, LocalsBalance
  <2> QED BY <1>1, <1>4, <1>5, <1>8, <2>1, <2>2
<1> QED BY <1>6, <1>7, <1>9, <1>10 DEF IInv

\* Every step of every call keeps the invariant.
LEMMA StepInv == IInv /\ [Next]_vars => IInv'
<1> SUFFICES ASSUME IInv, [Next]_vars PROVE IInv'
  OBVIOUS
<1> USE DEF IInv
<1>1. ASSUME NEW f \in Accounts, DeliverUnknown(f) PROVE IInv'
  BY <1>1 DEF DeliverUnknown, TypeOK, CallShape, SrcFresh, OneSided, LocalsBalance
<1>2. ASSUME NEW r \in Routes, NEW coins \in Messages, SendReadSrc(r[1], r[2], coins)
      PROVE  IInv'
  <2>1. r[1] \in Accounts /\ r[2] \in Accounts
    BY BankAssumption
  <2>2. Start("send", r[1], r[2], coins) /\ src' = bal[r[1]] /\ pc' = "read_dst" /\ dst' = dst
    BY <1>2 DEF SendReadSrc
  <2>3. /\ bal' = bal /\ call'.kind = "send" /\ call'.from = r[1] /\ call'.to = r[2]
        /\ TypeOK'
    BY <2>1, <2>2, StartTyped DEF TypeOK
  <2> QED BY <2>1, <2>2, <2>3 DEF CallShape, SrcFresh, OneSided, LocalsBalance
<1>3. ASSUME NEW a \in Accounts, NEW coins \in Messages, MintRead(a, coins) PROVE IInv'
  <2>1. Start("mint", a, a, coins) /\ dst' = bal[a] /\ pc' = "loop" /\ src' = src
    BY <1>3 DEF MintRead
  <2>2. /\ bal' = bal /\ call'.kind = "mint" /\ call'.from = a /\ call'.to = a
        /\ TypeOK'
    BY <2>1, StartTyped DEF TypeOK
  <2>3. \A d \in Denoms : Val(bal'[a], d) <= Val(dst', d)
    BY <2>1, <2>2, ValTyped DEF TypeOK
  <2> QED BY <2>1, <2>2, <2>3 DEF CallShape, SrcFresh, OneSided, LocalsBalance
<1>4. ASSUME NEW a \in Accounts, NEW coins \in Messages, BurnRead(a, coins) PROVE IInv'
  <2>1. Start("burn", a, a, coins) /\ src' = bal[a] /\ pc' = "loop" /\ dst' = dst
    BY <1>4 DEF BurnRead
  <2>2. /\ bal' = bal /\ call'.kind = "burn" /\ call'.from = a /\ call'.to = a
        /\ TypeOK'
    BY <2>1, StartTyped DEF TypeOK
  <2>3. \A d \in Denoms : Val(src', d) <= Val(bal'[a], d)
    BY <2>1, <2>2, ValTyped DEF TypeOK
  <2> QED BY <2>1, <2>2, <2>3 DEF CallShape, SrcFresh, OneSided, LocalsBalance
<1>5. CASE SendReadDst
  <2>1. /\ pc = "read_dst" /\ pc' = "loop" /\ dst' = bal[call.to] /\ src = bal[call.from]
        /\ bal' = bal /\ call' = call /\ src' = src /\ call.kind = "send"
        /\ call.from \in Accounts /\ call.to \in Accounts
    BY <1>5 DEF SendReadDst, CallShape, SrcFresh
  <2>2. TypeOK'
    BY <1>5, <2>1 DEF SendReadDst, TypeOK
  <2>3. LocalsBalance'
    BY <2>1, ValTyped DEF LocalsBalance, TypeOK
  <2> QED BY <2>1, <2>2, <2>3 DEF CallShape, SrcFresh, OneSided
<1>6. CASE LoopCoin
  BY <1>6, LoopInv
<1>7. CASE LoopErr
  BY <1>7, ReturnInv DEF LoopErr, TypeOK
<1>8. CASE SendSetSrc
  <2>1. TypeOK'
    BY <1>8 DEF SendSetSrc, TypeOK
  <2> QED BY <1>8, <2>1 DEF SendSetSrc, CallShape, SrcFresh, OneSided, LocalsBalance
<1>9. CASE SendSetDst
  <2>1. bal' \in [Accounts -> Balances] /\ issued' \in [Denoms -> Int] /\ Return("ok")
    BY <1>9 DEF SendSetDst, TypeOK
  <2> QED BY <2>1, ReturnInv
<1>10. CASE MintSet
  <2>1. call.to \in Accounts
    BY <1>10 DEF MintSet, CallShape
  <2>2. \A d \in Denoms : issued[d] + Val(dst, d) - Val(bal[call.to], d) \in Int
    BY <2>1, ValTyped DEF TypeOK
  <2>3. bal' \in [Accounts -> Balances] /\ issued' \in [Denoms -> Int] /\ Return("ok")
    BY <1>10, <2>2 DEF MintSet, TypeOK
  <2> QED BY <2>3, ReturnInv
<1>11. CASE BurnSet
  <2>1. call.from \in Accounts
    BY <1>11 DEF BurnSet, CallShape
  <2>2. \A d \in Denoms : issued[d] + Val(src, d) - Val(bal[call.from], d) \in Int
    BY <2>1, ValTyped DEF TypeOK
  <2>3. bal' \in [Accounts -> Balances] /\ issued' \in [Denoms -> Int] /\ Return("ok")
    BY <1>11, <2>2 DEF BurnSet, TypeOK
  <2> QED BY <2>3, ReturnInv
<1>12. CASE UNCHANGED vars
  BY <1>12 DEF vars, TypeOK, CallShape, SrcFresh, OneSided, LocalsBalance
<1> QED BY <1>1, <1>2, <1>3, <1>4, <1>5, <1>6, <1>7, <1>8, <1>9, <1>10, <1>11,
           <1>12 DEF Next

\* The bank's balances, locals and answers keep their types.
THEOREM TypeCorrect == Spec => []TypeOK
<1>1. IInv => TypeOK
  BY DEF IInv
<1> QED BY <1>1, InitInv, StepInv, PTL DEF Spec

\* The copies of a running transfer hold what the store holds for its two
\* accounts, for every list of coins and every amount.
THEOREM LocalsStayInBalance == Spec => []LocalsBalance
<1>1. IInv => LocalsBalance
  BY DEF IInv
<1> QED BY <1>1, InitInv, StepInv, PTL DEF Spec

-----------------------------------------------------------------------------
(* The refinement.  It needs that nobody sends to himself: send_coins      *)
(* reads both copies before it stores them, so the second store would      *)
(* overwrite the first.                                                    *)

NoSelfSend == \A r \in Routes : r[1] # r[2]

\* The two accounts of a running transfer are different.
Apart == pc # "idle" /\ call.kind = "send" => call.from # call.to

\* The invariant the refinement uses holds in every reachable state.
LEMMA ApartInv ==
  ASSUME NoSelfSend
  PROVE  Spec => [](IInv /\ Apart)
<1>1. Init => Apart
  BY DEF Init, Apart
<1>2. IInv /\ Apart /\ [Next]_vars => Apart'
  <2> SUFFICES ASSUME IInv, Apart, [Next]_vars PROVE Apart'
    OBVIOUS
  <2> USE DEF Apart
  <2>1. ASSUME NEW r \in Routes, NEW coins \in Messages, SendReadSrc(r[1], r[2], coins)
        PROVE  Apart'
    BY <2>1, BankAssumption, StartTyped DEF SendReadSrc, NoSelfSend
  <2>2. ASSUME NEW a \in Accounts, NEW coins \in Messages,
               MintRead(a, coins) \/ BurnRead(a, coins)
        PROVE  Apart'
    <3>1. Start("mint", a, a, coins) \/ Start("burn", a, a, coins)
      BY <2>2 DEF MintRead, BurnRead
    <3>2. call'.kind # "send"
      BY <3>1, StartTyped
    <3> QED BY <3>2
  <2>3. ASSUME NEW f \in Accounts, DeliverUnknown(f) PROVE Apart'
    BY <2>3 DEF DeliverUnknown
  <2>4. CASE SendReadDst
    BY <2>4 DEF SendReadDst
  <2>5. CASE LoopCoin
    BY <2>5 DEF LoopCoin
  <2>6. CASE SendSetSrc
    BY <2>6 DEF SendSetSrc
  <2>7. CASE LoopErr \/ SendSetDst \/ MintSet \/ BurnSet
    BY <2>7 DEF LoopErr, SendSetDst, MintSet, BurnSet, Return
  <2>8. CASE UNCHANGED vars
    BY <2>8 DEF vars
  <2> QED BY <2>1, <2>2, <2>3, <2>4, <2>5, <2>6, <2>7, <2>8 DEF Next
<1> QED BY <1>1, <1>2, InitInv, StepInv, PTL DEF Spec

\* The amounts of the store, account by account.
Owned(b) == [d \in Denoms |-> Val(b, d)]

\* The abstract balances: the store's, with a pending destination in place.
LEMMA LedgerFacts ==
  /\ pc # "set_dst" => LedgerBal = [a \in Accounts |-> Owned(bal[a])]
  /\ pc = "set_dst" =>
       LedgerBal = [a \in Accounts |-> Owned(IF a = call.to THEN dst ELSE bal[a])]
  BY DEF LedgerBal, Owned

\* Amounts of balances are amounts of the ledger.
LEMMA OwnedTyped ==
  ASSUME NEW b \in Balances
  PROVE  Owned(b) \in [Denoms -> 0 .. MaxAmount]
  BY ValTyped DEF Owned

\* Storing the source is the transfer; storing the destination is silent.
LEMMA TransferStep ==
  IInv /\ Apart /\ SendSetSrc => Abs!Next
<1> SUFFICES ASSUME IInv, Apart, SendSetSrc PROVE Abs!Next
  OBVIOUS
<1> DEFINE f == call.from
           t == call.to
           moved == [d \in Denoms |-> Val(bal[f], d) - Val(src, d)]
<1>1. /\ f \in Accounts /\ t \in Accounts /\ f # t
      /\ bal \in [Accounts -> Balances] /\ src \in Balances /\ dst \in Balances
      /\ pc = "loop" /\ pc' = "set_dst" /\ call' = call /\ dst' = dst /\ issued' = issued
      /\ bal' = [bal EXCEPT ![f] = src]
  BY DEF SendSetSrc, IInv, TypeOK, CallShape, Apart
<1>2. \A d \in Denoms : /\ Val(bal[f], d) \in 0 .. MaxAmount /\ Val(bal[t], d) \in 0 .. MaxAmount
                        /\ Val(src, d) \in 0 .. MaxAmount /\ Val(dst, d) \in 0 .. MaxAmount
                        /\ Val(src, d) + Val(dst, d) = Val(bal[f], d) + Val(bal[t], d)
                        /\ Val(src, d) <= Val(bal[f], d)
  BY <1>1, ValTyped DEF SendSetSrc, IInv, LocalsBalance
<1>3. MaxAmount \in Nat
  BY BankAssumption
<1>4. /\ moved \in [Denoms -> 0 .. MaxAmount]
      /\ \A d \in Denoms : /\ moved[d] <= Val(bal[f], d)
                           /\ Val(bal[t], d) + moved[d] = Val(dst, d)
                           /\ Val(bal[f], d) - moved[d] = Val(src, d)
                           /\ Val(dst, d) <= MaxAmount
  BY <1>2, <1>3
<1>5. LedgerBal = [a \in Accounts |-> Owned(bal[a])]
  BY <1>1, LedgerFacts
<1>6. LedgerBal' = [a \in Accounts |-> Owned(IF a = t THEN dst ELSE bal'[a])]
  BY <1>1, LedgerFacts DEF LedgerBal, Owned
<1> HIDE DEF f, t, moved
<1>7. /\ LedgerBal[f] = Owned(bal[f]) /\ LedgerBal[t] = Owned(bal[t])
      /\ \A d \in Denoms : LedgerBal[f][d] = Val(bal[f], d) /\ LedgerBal[t][d] = Val(bal[t], d)
  BY <1>1, <1>5 DEF Owned
<1>8. LedgerBal' = [LedgerBal EXCEPT ![f] = Owned(src), ![t] = Owned(dst)]
  <2>1. \A a \in Accounts : Owned(IF a = t THEN dst ELSE bal'[a]) =
                            [LedgerBal EXCEPT ![f] = Owned(src), ![t] = Owned(dst)][a]
    BY <1>1, <1>5
  <2> QED BY <1>5, <1>6, <2>1
<1>9. /\ Owned(src) = [d \in Denoms |-> LedgerBal[f][d] - moved[d]]
      /\ Owned(dst) = [d \in Denoms |-> LedgerBal[t][d] + moved[d]]
  BY <1>4, <1>7 DEF Owned
<1>10. Abs!Transfer(f, t, moved)
  <2>1. \A d \in Denoms : moved[d] <= LedgerBal[f][d]
    BY <1>4, <1>7
  <2>2. \A d \in Denoms : LedgerBal[t][d] + moved[d] <= MaxAmount
    BY <1>4, <1>7
  <2>3. LedgerBal' = [LedgerBal EXCEPT ![f] = [d \in Denoms |-> LedgerBal[f][d] - moved[d]],
                                       ![t] = [d \in Denoms |-> LedgerBal[t][d] + moved[d]]]
    BY <1>8, <1>9
  <2> QED BY <1>1, <2>1, <2>2, <2>3 DEF Abs!Transfer
<1> QED BY <1>1, <1>4, <1>10 DEF Abs!Next, Abs!Amounts

\* Storing the minted or burned copy is one step of the ledger.
LEMMA IssueStep ==
  IInv /\ (MintSet \/ BurnSet) => Abs!Next
<1>1. ASSUME IInv, MintSet PROVE Abs!Next
  <2> DEFINE t == call.to
             new == [d \in Denoms |-> Val(dst, d) - Val(bal[t], d)]
  <2>1. /\ t \in Accounts /\ bal \in [Accounts -> Balances] /\ dst \in Balances
        /\ issued \in [Denoms -> Int]
        /\ pc = "loop" /\ pc' = "idle" /\ bal' = [bal EXCEPT ![t] = dst]
        /\ issued' = [d \in Denoms |-> issued[d] + Val(dst, d) - Val(bal[t], d)]
        /\ \A d \in Denoms : Val(bal[t], d) <= Val(dst, d)
    BY <1>1 DEF MintSet, Return, IInv, TypeOK, CallShape, OneSided
  <2>2. \A d \in Denoms : /\ Val(bal[t], d) \in 0 .. MaxAmount
                          /\ Val(dst, d) \in 0 .. MaxAmount
                          /\ MaxAmount \in Nat
    BY <2>1, ValTyped
  <2>3. /\ new \in [Denoms -> 0 .. MaxAmount]
        /\ \A d \in Denoms : /\ Val(bal[t], d) + new[d] = Val(dst, d)
                             /\ Val(dst, d) <= MaxAmount
                             /\ issued'[d] = issued[d] + new[d]
    BY <2>1, <2>2
  <2>4. /\ LedgerBal = [a \in Accounts |-> Owned(bal[a])]
        /\ LedgerBal' = [a \in Accounts |-> Owned(bal'[a])]
    BY <2>1 DEF LedgerBal, Owned
  <2> HIDE DEF t, new
  <2>5. \A d \in Denoms : LedgerBal[t][d] = Val(bal[t], d)
    BY <2>1, <2>4 DEF Owned
  <2>6. Owned(dst) = [d \in Denoms |-> LedgerBal[t][d] + new[d]]
    BY <2>3, <2>5 DEF Owned
  <2>7. LedgerBal' = [LedgerBal EXCEPT ![t] = Owned(dst)]
    BY <2>1, <2>4
  <2>8. issued' = [d \in Denoms |-> issued[d] + new[d]]
    BY <2>1, <2>3
  <2>9. \A d \in Denoms : LedgerBal[t][d] + new[d] <= MaxAmount
    BY <2>3, <2>5
  <2>10. Abs!Mint(t, new)
    BY <2>6, <2>7, <2>8, <2>9 DEF Abs!Mint
  <2> QED BY <2>1, <2>3, <2>10 DEF Abs!Next, Abs!Amounts
<1>2. ASSUME IInv, BurnSet PROVE Abs!Next
  <2> DEFINE f == call.from
             old == [d \in Denoms |-> Val(bal[f], d) - Val(src, d)]
  <2>1. /\ f \in Accounts /\ bal \in [Accounts -> Balances] /\ src \in Balances
        /\ issued \in [Denoms -> Int]
        /\ pc = "loop" /\ pc' = "idle" /\ bal' = [bal EXCEPT ![f] = src]
        /\ issued' = [d \in Denoms |-> issued[d] + Val(src, d) - Val(bal[f], d)]
        /\ \A d \in Denoms : Val(src, d) <= Val(bal[f], d)
    BY <1>2 DEF BurnSet, Return, IInv, TypeOK, CallShape, OneSided
  <2>2. \A d \in Denoms : /\ Val(bal[f], d) \in 0 .. MaxAmount
                          /\ Val(src, d) \in 0 .. MaxAmount
                          /\ MaxAmount \in Nat
    BY <2>1, ValTyped
  <2>3. /\ old \in [Denoms -> 0 .. MaxAmount]
        /\ \A d \in Denoms : /\ Val(bal[f], d) - old[d] = Val(src, d)
                             /\ old[d] <= Val(bal[f], d)
                             /\ issued'[d] = issued[d] - old[d]
    BY <2>1, <2>2
  <2>4. /\ LedgerBal = [a \in Accounts |-> Owned(bal[a])]
        /\ LedgerBal' = [a \in Accounts |-> Owned(bal'[a])]
    BY <2>1 DEF LedgerBal, Owned
  <2> HIDE DEF f, old
  <2>5. \A d \in Denoms : LedgerBal[f][d] = Val(bal[f], d)
    BY <2>1, <2>4 DEF Owned
  <2>6. Owned(src) = [d \in Denoms |-> LedgerBal[f][d] - old[d]]
    BY <2>3, <2>5 DEF Owned
  <2>7. LedgerBal' = [LedgerBal EXCEPT ![f] = Owned(src)]
    BY <2>1, <2>4
  <2>8. issued' = [d \in Denoms |-> issued[d] - old[d]]
    BY <2>1, <2>3
  <2>9. \A d \in Denoms : old[d] <= LedgerBal[f][d]
    BY <2>3, <2>5
  <2>10. Abs!Burn(f, old)
    BY <2>6, <2>7, <2>8, <2>9 DEF Abs!Burn
  <2> QED BY <2>1, <2>3, <2>10 DEF Abs!Next, Abs!Amounts
<1> QED BY <1>1, <1>2

\* The other steps are invisible to the ledger.
LEMMA SilentStep ==
  ASSUME IInv,
         \/ UNCHANGED <<bal, issued>> /\ pc # "set_dst" /\ pc' # "set_dst"
         \/ SendSetDst
         \/ UNCHANGED vars
  PROVE  UNCHANGED Abs!vars
<1>1. CASE UNCHANGED <<bal, issued>> /\ pc # "set_dst" /\ pc' # "set_dst"
  BY <1>1 DEF LedgerBal, Abs!vars
<1>2. CASE SendSetDst
  <2>1. /\ pc = "set_dst" /\ pc' = "idle" /\ bal' = [bal EXCEPT ![call.to] = dst]
        /\ issued' = issued /\ bal \in [Accounts -> Balances] /\ call.to \in Accounts
    BY <1>2 DEF SendSetDst, Return, IInv, TypeOK, CallShape
  <2>2. \A a \in Accounts : bal'[a] = IF a = call.to THEN dst ELSE bal[a]
    BY <2>1
  <2>3. LedgerBal' = [a \in Accounts |-> Owned(bal'[a])]
    BY <2>1 DEF LedgerBal, Owned
  <2>4. LedgerBal = [a \in Accounts |-> Owned(IF a = call.to THEN dst ELSE bal[a])]
    BY <2>1, LedgerFacts
  <2>5. LedgerBal' = LedgerBal
    BY <2>2, <2>3, <2>4
  <2> QED BY <2>1, <2>5 DEF Abs!vars
<1>3. CASE UNCHANGED vars
  BY <1>3 DEF vars, LedgerBal, Abs!vars
<1> QED BY <1>1, <1>2, <1>3

\* Every step of the bank is one of the ledger, or invisible to it.
LEMMA RefineStep == IInv /\ Apart /\ [Next]_vars => [Abs!Next]_(Abs!vars)
<1> SUFFICES ASSUME IInv, Apart, [Next]_vars PROVE [Abs!Next]_(Abs!vars)
  OBVIOUS
<1>1. CASE SendSetSrc
  BY <1>1, TransferStep
<1>2. CASE MintSet \/ BurnSet
  BY <1>2, IssueStep
<1>3. CASE SendSetDst \/ UNCHANGED vars
  BY <1>3, SilentStep
<1>4. ASSUME NEW f \in Accounts, DeliverUnknown(f) PROVE UNCHANGED Abs!vars
  BY <1>4, SilentStep DEF DeliverUnknown
<1>5. ASSUME NEW r \in Routes, NEW coins \in Messages, SendReadSrc(r[1], r[2], coins)
      PROVE  UNCHANGED Abs!vars
  BY <1>5, SilentStep DEF SendReadSrc, Start
<1>6. ASSUME NEW a \in Accounts, NEW coins \in Messages,
             MintRead(a, coins) \/ BurnRead(a, coins)
      PROVE  UNCHANGED Abs!vars
  BY <1>6, SilentStep DEF MintRead, BurnRead, Start
<1>7. CASE SendReadDst
  BY <1>7, SilentStep DEF SendReadDst
<1>8. CASE LoopCoin
  BY <1>8, SilentStep DEF LoopCoin
<1>9. CASE LoopErr
  BY <1>9, SilentStep DEF LoopErr, Return
<1> QED BY <1>1, <1>2, <1>3, <1>4, <1>5, <1>6, <1>7, <1>8, <1>9 DEF Next

\* The bank implements the ledger: a transfer moves exactly what leaves the
\* source to the destination, and only minting and burning change the supply.
THEOREM BankRefinesLedger ==
  ASSUME NoSelfSend
  PROVE  Spec => ImplementsLedger
<1>1. Init => Abs!Init
  <2> SUFFICES ASSUME Init PROVE Abs!Init
    OBVIOUS
  <2>1. LedgerBal = [a \in Accounts |-> Owned(Genesis[a])]
    BY LedgerFacts DEF Init
  <2>2. LedgerBal \in [Accounts -> [Denoms -> 0 .. MaxAmount]]
    BY <2>1, OwnedTyped, BankAssumption
  <2> QED BY <2>2 DEF Init, Abs!Init, Abs!Amounts
<1> QED BY <1>1, RefineStep, ApartInv, PTL DEF Spec, ImplementsLedger, Abs!Spec
-----------------------------------------------------------------------------
(* Money.  The sums are taken over the balances of the ledger, where a     *)
(* transfer is one step; a reader of the store sees them but for the       *)
(* coins a transfer has taken and not yet given.                           *)

Total(d) == SumFunctionOnSet([a \in Accounts |-> LedgerBal[a][d]], Accounts)

Conserved == \A d \in Denoms : Total(d) = GenesisSupply(d) + issued[d]

\* What a transfer is about to store at its destination is no less than what
\* is there.
PendingCredit ==
  pc = "set_dst" =>
    /\ call.from # call.to
    /\ \A d \in Denoms : Val(bal[call.to], d) <= Val(dst, d)

\* The balances of the ledger are amounts, account by account.
LEMMA LedgerTyped == IInv => LedgerBal \in [Accounts -> [Denoms -> 0 .. MaxAmount]]
<1> SUFFICES ASSUME IInv PROVE LedgerBal \in [Accounts -> [Denoms -> 0 .. MaxAmount]]
  OBVIOUS
<1>1. /\ \A a \in Accounts : Owned(bal[a]) \in [Denoms -> 0 .. MaxAmount]
      /\ Owned(dst) \in [Denoms -> 0 .. MaxAmount]
  BY OwnedTyped DEF IInv, TypeOK
<1> HIDE DEF Owned
<1>2. CASE pc = "set_dst"
  BY <1>1, <1>2, LedgerFacts
<1>3. CASE pc # "set_dst"
  BY <1>1, <1>3, LedgerFacts
<1> QED BY <1>2, <1>3

\* Two summands change and their sum does not.
LEMMA MovedSum ==
  ASSUME NEW f \in [Accounts -> Int], NEW g \in [Accounts -> Int],
         NEW x \in Accounts, NEW y \in Accounts, x # y,
         f[x] + f[y] = g[x] + g[y],
         \A a \in Accounts \ {x, y} : f[a] = g[a]
  PROVE  SumFunctionOnSet(f, Accounts) = SumFunctionOnSet(g, Accounts)
<1> DEFINE h == [f EXCEPT ![x] = g[x]]
<1>1. /\ h \in [Accounts -> Int] /\ h[x] = g[x] /\ h[y] = f[y]
      /\ \A a \in Accounts \ {x} : h[a] = f[a]
      /\ \A a \in Accounts \ {y} : h[a] = g[a]
  OBVIOUS
<1>2. IsFiniteSet(Accounts)
  BY BankAssumption
<1> HIDE DEF h
<1>3. SumFunctionOnSet(h, Accounts) = SumFunctionOnSet(f, Accounts) - f[x] + h[x]
  BY <1>1, <1>2, SumChange
<1>4. SumFunctionOnSet(g, Accounts) = SumFunctionOnSet(h, Accounts) - h[y] + g[y]
  BY <1>1, <1>2, SumChange
<1>5. SumFunctionOnSet(f, Accounts) \in Int
  BY <1>2, SumInt
<1>6. f[x] \in Int /\ f[y] \in Int /\ g[x] \in Int /\ g[y] \in Int
  OBVIOUS
<1> QED BY <1>1, <1>3, <1>4, <1>5, <1>6

\* What the accounts hold of one denomination, in a ledger's balances b.
Column(b, d) == [a \in Accounts |-> b[a][d]]

\* The balances of the ledger before and after a step.
LEMMA LedgersTyped ==
  IInv /\ IInv' => /\ LedgerBal \in [Accounts -> [Denoms -> 0 .. MaxAmount]]
                   /\ LedgerBal' \in [Accounts -> [Denoms -> 0 .. MaxAmount]]
<1>1. IInv' => (LedgerBal \in [Accounts -> [Denoms -> 0 .. MaxAmount]])'
  BY LedgerTyped, PTL
<1> QED BY <1>1, LedgerTyped

LEMMA TotalOfColumn ==
  ASSUME NEW d \in Denoms
  PROVE  /\ Total(d) = SumFunctionOnSet(Column(LedgerBal, d), Accounts)
         /\ Total(d)' = SumFunctionOnSet(Column(LedgerBal', d), Accounts)
  BY DEF Total, Column

\* A transfer between two accounts moves money, it makes none.
LEMMA ColumnMoved ==
  ASSUME NEW b, NEW c, NEW d, NEW f \in Accounts, NEW t \in Accounts, f # t,
         \A a \in Accounts : b[a][d] \in Int /\ c[a][d] \in Int,
         b[f][d] + b[t][d] = c[f][d] + c[t][d],
         \A a \in Accounts \ {f, t} : c[a][d] = b[a][d]
  PROVE  SumFunctionOnSet(Column(b, d), Accounts) = SumFunctionOnSet(Column(c, d), Accounts)
<1>1. /\ Column(b, d) \in [Accounts -> Int] /\ Column(c, d) \in [Accounts -> Int]
      /\ \A a \in Accounts : Column(b, d)[a] = b[a][d] /\ Column(c, d)[a] = c[a][d]
  BY DEF Column
<1> QED BY <1>1, MovedSum

\* Minting and burning change the sum by what they change one account.
LEMMA ColumnChanged ==
  ASSUME NEW b, NEW c, NEW d, NEW t \in Accounts, NEW n \in Int,
         \A a \in Accounts : b[a][d] \in Int /\ c[a][d] \in Int,
         c[t][d] = b[t][d] + n,
         \A a \in Accounts \ {t} : c[a][d] = b[a][d]
  PROVE  SumFunctionOnSet(Column(c, d), Accounts) =
           SumFunctionOnSet(Column(b, d), Accounts) + n
<1>1. /\ Column(b, d) \in [Accounts -> Int] /\ Column(c, d) \in [Accounts -> Int]
      /\ \A a \in Accounts : Column(b, d)[a] = b[a][d] /\ Column(c, d)[a] = c[a][d]
  BY DEF Column
<1>2. IsFiniteSet(Accounts)
  BY BankAssumption
<1>3. SumFunctionOnSet(Column(b, d), Accounts) \in Int
  BY <1>1, <1>2, SumInt
<1>4. SumFunctionOnSet(Column(c, d), Accounts) =
        SumFunctionOnSet(Column(b, d), Accounts) - Column(b, d)[t] + Column(c, d)[t]
  BY <1>1, <1>2, SumChange
<1> QED BY <1>1, <1>3, <1>4

\* Every step of the ledger accounts for the money it makes or destroys.
LEMMA ConservedStep ==
  IInv /\ IInv' /\ [Abs!Next]_(Abs!vars) /\ Conserved => Conserved'
<1> SUFFICES ASSUME IInv, IInv', [Abs!Next]_(Abs!vars), Conserved, NEW d \in Denoms
             PROVE  Total(d)' = GenesisSupply(d) + issued'[d]
  BY DEF Conserved, GenesisSupply
<1> DEFINE b == LedgerBal
           c == LedgerBal'
           sum == SumFunctionOnSet(Column(b, d), Accounts)
           sum1 == SumFunctionOnSet(Column(c, d), Accounts)
<1>1. /\ b \in [Accounts -> [Denoms -> 0 .. MaxAmount]]
      /\ c \in [Accounts -> [Denoms -> 0 .. MaxAmount]]
      /\ MaxAmount \in Nat /\ issued \in [Denoms -> Int]
  BY LedgersTyped, BankAssumption DEF IInv, TypeOK
<1>2. /\ Total(d) = sum /\ Total(d)' = sum1 /\ sum = GenesisSupply(d) + issued[d]
      /\ sum \in Int
  <2>1. Column(b, d) \in [Accounts -> Int]
    BY <1>1 DEF Column
  <2>2. sum \in Int
    <3> HIDE DEF b
    <3> QED BY <2>1, BankAssumption, SumInt
  <2> QED BY <2>2, TotalOfColumn DEF Conserved
<1>3. GenesisSupply(d) \in Int
  <2>1. \A a \in Accounts : Val(Genesis[a], d) \in Nat
    BY ValTyped, BankAssumption
  <2> DEFINE g == [a \in Accounts |-> Val(Genesis[a], d)]
  <2>2. g \in [Accounts -> Int] /\ DOMAIN g = Accounts
    BY <2>1
  <2> HIDE DEF g
  <2>3. SumFunction(g) \in Int
    BY <2>2, BankAssumption, SumInt, SumFunctionDef
  <2> QED BY <2>3 DEF GenesisSupply, g
<1>8. \A a \in Accounts : b[a][d] \in Int /\ c[a][d] \in Int
  BY <1>1
<1>4. ASSUME NEW f \in Accounts, NEW t \in Accounts, NEW moved \in Abs!Amounts,
             Abs!Transfer(f, t, moved)
      PROVE  Total(d)' = GenesisSupply(d) + issued'[d]
  <2>1. issued' = issued /\ moved \in [Denoms -> 0 .. MaxAmount]
    BY <1>4 DEF Abs!Transfer, Abs!Amounts
  <2>2. CASE f = t
    <3>1. c = b
      BY <1>4, <2>2 DEF Abs!Transfer
    <3> QED BY <1>2, <2>1, <3>1
  <2>3. CASE f # t
    <3>1. c = [b EXCEPT ![f] = [e \in Denoms |-> b[f][e] - moved[e]],
                        ![t] = [e \in Denoms |-> b[t][e] + moved[e]]]
      BY <1>4, <2>3 DEF Abs!Transfer
    <3> HIDE DEF b, c
    <3>2. /\ moved[d] \in Int
          /\ c[f][d] = b[f][d] - moved[d] /\ c[t][d] = b[t][d] + moved[d]
          /\ \A a \in Accounts \ {f, t} : c[a][d] = b[a][d]
      BY <1>1, <2>1, <2>3, <3>1
    <3>3. b[f][d] + b[t][d] = c[f][d] + c[t][d]
      BY <1>8, <3>2
    <3>4. sum = sum1
      BY <1>8, <2>3, <3>2, <3>3, ColumnMoved
    <3> QED BY <1>2, <2>1, <3>4
  <2> QED BY <2>2, <2>3
<1>5. ASSUME NEW t \in Accounts, NEW x \in Abs!Amounts, Abs!Mint(t, x) \/ Abs!Burn(t, x)
      PROVE  Total(d)' = GenesisSupply(d) + issued'[d]
  <2>0. x \in [Denoms -> 0 .. MaxAmount]
    BY DEF Abs!Amounts
  <2>1. PICK n \in [Denoms -> Int] :
          /\ c = [b EXCEPT ![t] = [e \in Denoms |-> b[t][e] + n[e]]]
          /\ issued' = [e \in Denoms |-> issued[e] + n[e]]
    <3>1. CASE Abs!Mint(t, x)
      <4>1. x \in [Denoms -> Int]
        BY <1>1, <2>0
      <4> QED BY <3>1, <4>1 DEF Abs!Mint
    <3>2. CASE Abs!Burn(t, x)
      <4> DEFINE n == [e \in Denoms |-> 0 - x[e]]
      <4>1. n \in [Denoms -> Int] /\ \A e \in Denoms : n[e] = 0 - x[e]
        BY <1>1, <2>0
      <4>2. \A e \in Denoms : x[e] \in Int /\ b[t][e] \in Int /\ issued[e] \in Int
        BY <1>1, <2>0
      <4>3. \A e \in Denoms : b[t][e] - x[e] = b[t][e] + n[e]
                              /\ issued[e] - x[e] = issued[e] + n[e]
        BY <4>1, <4>2
      <4> HIDE DEF n
      <4>4. /\ c = [b EXCEPT ![t] = [e \in Denoms |-> b[t][e] - x[e]]]
            /\ issued' = [e \in Denoms |-> issued[e] - x[e]]
        BY <3>2 DEF Abs!Burn
      <4>5. /\ [e \in Denoms |-> b[t][e] - x[e]] = [e \in Denoms |-> b[t][e] + n[e]]
            /\ [e \in Denoms |-> issued[e] - x[e]] = [e \in Denoms |-> issued[e] + n[e]]
        BY <4>3
      <4> QED BY <4>1, <4>4, <4>5
    <3> QED BY <1>5, <3>1, <3>2
  <2> HIDE DEF b, c
  <2>2. /\ n[d] \in Int /\ c[t][d] = b[t][d] + n[d] /\ issued'[d] = issued[d] + n[d]
        /\ \A a \in Accounts \ {t} : c[a][d] = b[a][d]
    BY <1>1, <2>1
  <2>3. sum1 = sum + n[d]
    BY <1>8, <2>2, ColumnChanged
  <2> QED BY <1>1, <1>2, <1>3, <2>2, <2>3
<1>6. CASE UNCHANGED Abs!vars
  <2>1. c = b /\ issued' = issued
    BY <1>6 DEF Abs!vars
  <2> QED BY <1>2, <2>1
<1>7. CASE Abs!Next
  BY <1>4, <1>5, <1>7 DEF Abs!Next
<1> QED BY <1>6, <1>7

\* The bank starts with the genesis balances.
LEMMA ConservedInit == Init => Conserved
<1> SUFFICES ASSUME Init, NEW d \in Denoms PROVE Total(d) = GenesisSupply(d) + issued[d]
  BY DEF Conserved
<1> DEFINE g == [a \in Accounts |-> Val(Genesis[a], d)]
<1>1. LedgerBal = [a \in Accounts |-> Owned(Genesis[a])]
  BY LedgerFacts DEF Init
<1>2. Column(LedgerBal, d) = g
  BY <1>1 DEF Column, Owned
<1>3. GenesisSupply(d) = SumFunctionOnSet(g, Accounts)
  BY SumFunctionDef DEF GenesisSupply
<1>4. SumFunctionOnSet(g, Accounts) \in Int
  <2>1. \A a \in Accounts : g[a] \in Int
    BY ValTyped, BankAssumption
  <2> HIDE DEF g
  <2> QED BY <2>1, BankAssumption, SumInt
<1>5. issued[d] = 0
  BY DEF Init
<1> QED BY <1>2, <1>3, <1>4, <1>5, TotalOfColumn

\* The destination of a transfer is credited, never debited.
LEMMA PendingStep == IInv /\ Apart /\ PendingCredit /\ [Next]_vars => PendingCredit'
<1> SUFFICES ASSUME IInv, Apart, PendingCredit, [Next]_vars, pc' = "set_dst"
             PROVE  /\ call'.from # call'.to
                    /\ \A d \in Denoms : Val(bal'[call'.to], d) <= Val(dst', d)
  BY DEF PendingCredit
<1>1. CASE SendSetSrc
  <2>1. /\ call.kind = "send" /\ call' = call /\ dst' = dst /\ pc = "loop"
        /\ call.from # call.to /\ call.from \in Accounts /\ call.to \in Accounts
        /\ bal' = [bal EXCEPT ![call.from] = src]
        /\ bal \in [Accounts -> Balances] /\ src \in Balances /\ dst \in Balances
    BY <1>1 DEF SendSetSrc, IInv, TypeOK, CallShape, Apart
  <2>2. \A d \in Denoms : /\ Val(src, d) + Val(dst, d) = Val(bal[call.from], d) + Val(bal[call.to], d)
                          /\ Val(src, d) <= Val(bal[call.from], d)
    BY <2>1 DEF IInv, LocalsBalance
  <2>3. \A d \in Denoms : /\ Val(src, d) \in Nat /\ Val(dst, d) \in Nat
                          /\ Val(bal[call.from], d) \in Nat /\ Val(bal[call.to], d) \in Nat
    BY <2>1, ValTyped
  <2>4. \A d \in Denoms : Val(bal[call.to], d) <= Val(dst, d)
    BY <2>2, <2>3
  <2> QED BY <2>1, <2>4
<1>2. CASE UNCHANGED vars
  BY <1>2 DEF vars, PendingCredit
<1>3. ASSUME NEW f \in Accounts, DeliverUnknown(f) PROVE FALSE
  BY <1>3 DEF DeliverUnknown
<1>4. CASE SendReadDst \/ LoopCoin \/ LoopErr \/ SendSetDst \/ MintSet \/ BurnSet
  BY <1>4 DEF SendReadDst, LoopCoin, LoopErr, SendSetDst, MintSet, BurnSet, Return
<1>5. ASSUME NEW r \in Routes, NEW coins \in Messages, SendReadSrc(r[1], r[2], coins)
      PROVE  FALSE
  BY <1>5 DEF SendReadSrc
<1>6. ASSUME NEW a \in Accounts, NEW coins \in Messages,
             MintRead(a, coins) \/ BurnRead(a, coins)
      PROVE  FALSE
  BY <1>6 DEF MintRead, BurnRead
<1> QED BY <1>1, <1>2, <1>3, <1>4, <1>5, <1>6 DEF Next

\* What money needs of the states of the bank.
LEMMA MoneyInv ==
  ASSUME NoSelfSend
  PROVE  Spec => [](IInv /\ Conserved /\ PendingCredit)
<1>1. Init => Conserved /\ PendingCredit
  BY ConservedInit DEF Init, PendingCredit
<1>2. IInv /\ IInv' /\ Apart /\ Conserved /\ PendingCredit /\ [Next]_vars =>
        Conserved' /\ PendingCredit'
  BY RefineStep, ConservedStep, PendingStep
<1> QED BY <1>1, <1>2, ApartInv, PTL DEF Spec

\* What a reader of the store adds up.
LEMMA SupplyOfColumn ==
  ASSUME NEW d \in Denoms
  PROVE  Supply(d) = SumFunctionOnSet([a \in Accounts |-> Val(bal[a], d)], Accounts)
  BY SumFunctionDef DEF Supply

\* Between two stores of a transfer a reader misses coins, and at all other
\* times it sees all there are.
LEMMA ReaderSees ==
  ASSUME IInv, Conserved, PendingCredit, NEW d \in Denoms
  PROVE  /\ pc # "set_dst" => Supply(d) = Total(d)
         /\ Supply(d) <= Total(d)
         /\ Total(d) \in Int
<1> DEFINE s == [a \in Accounts |-> Val(bal[a], d)]
           l == Column(LedgerBal, d)
<1>1. /\ bal \in [Accounts -> Balances] /\ dst \in Balances
      /\ Supply(d) = SumFunctionOnSet(s, Accounts)
      /\ Total(d) = SumFunctionOnSet(l, Accounts)
      /\ IsFiniteSet(Accounts)
  BY SupplyOfColumn, TotalOfColumn, BankAssumption DEF IInv, TypeOK
<1>2. \A a \in Accounts : s[a] \in Nat
  BY <1>1, ValTyped
<1>3. pc # "set_dst" => l = s
  BY LedgerFacts DEF Column, Owned
<1>4. pc = "set_dst" => \A a \in Accounts :
        l[a] = IF a = call.to THEN Val(dst, d) ELSE Val(bal[a], d)
  <2> SUFFICES ASSUME pc = "set_dst", NEW a \in Accounts
               PROVE  l[a] = IF a = call.to THEN Val(dst, d) ELSE Val(bal[a], d)
    OBVIOUS
  <2>1. l[a] = Owned(IF a = call.to THEN dst ELSE bal[a])[d]
    BY LedgerFacts DEF Column
  <2> QED BY <2>1 DEF Owned
<1>5. \A a \in Accounts : l[a] \in Nat /\ s[a] <= l[a]
  <2>1. CASE pc = "set_dst"
    <3>1. /\ \A a \in Accounts : s[a] = Val(bal[a], d)
          /\ Val(dst, d) \in Nat /\ Val(bal[call.to], d) <= Val(dst, d)
      BY <1>1, <2>1, ValTyped DEF PendingCredit
    <3> HIDE DEF s, l
    <3> QED BY <1>2, <1>4, <2>1, <3>1
  <2>2. CASE pc # "set_dst"
    <3> HIDE DEF s, l
    <3> QED BY <1>2, <1>3, <2>2
  <2> QED BY <2>1, <2>2
<1> HIDE DEF s, l
<1>6. SumFunctionOnSet(s, Accounts) <= SumFunctionOnSet(l, Accounts)
  BY <1>1, <1>2, <1>5, SumMonotonic
<1>7. SumFunctionOnSet(l, Accounts) \in Int
  BY <1>1, <1>5, SumInt
<1> QED BY <1>1, <1>3, <1>6, <1>7

\* Money is conserved, for every number of accounts and denominations, every
\* list of coins and every failure in it, if nobody sends to himself.
THEOREM MoneyIsConserved ==
  ASSUME NoSelfSend
  PROVE  Spec => []Conservation
<1>1. IInv /\ Conserved /\ PendingCredit => Conservation
  <2> SUFFICES ASSUME IInv, Conserved, PendingCredit, pc = "idle", NEW d \in Denoms
               PROVE  Supply(d) = GenesisSupply(d) + issued[d]
    BY DEF Conservation
  <2> QED BY ReaderSees DEF Conserved
<1> QED BY <1>1, MoneyInv, PTL

\* A reader never sees more money than there is, at any step of any call.
THEOREM ReadersNeverOverstate ==
  ASSUME NoSelfSend
  PROVE  Spec => []NeverOverstated
<1>1. IInv /\ Conserved /\ PendingCredit => NeverOverstated
  <2> SUFFICES ASSUME IInv, Conserved, PendingCredit, NEW d \in Denoms
               PROVE  Supply(d) <= GenesisSupply(d) + issued[d]
    BY DEF NeverOverstated
  <2> QED BY ReaderSees DEF Conserved
<1> QED BY <1>1, MoneyInv, PTL

-----------------------------------------------------------------------------
(* Exactness.  Of the coins of a transfer, the loop has handled those that *)
(* are not in todo any more, and what they ask for is what has moved.      *)

\* What each coin of a list asks for of one denomination.
Asked(coins, d) ==
  [i \in DOMAIN coins |-> IF coins[i].denom = d THEN coins[i].amount ELSE 0]

\* How many coins have been handled, and what they asked for.
Handled == Len(call.coins) - Len(todo)
Paid(d) == SumFunctionOnSet(Asked(call.coins, d), 1 .. Handled)

ExactSoFar ==
  call.kind = "send" /\ pc \in {"read_dst", "loop"} =>
    /\ Handled \in Nat
    /\ \A i \in 1 .. Len(todo) : todo[i] = call.coins[Handled + i]
    /\ pc = "read_dst" => Handled = 0
    /\ pc = "loop" => \A d \in Denoms :
         /\ Val(src, d) = Val(bal[call.from], d) - Paid(d)
         /\ Val(dst, d) = Val(bal[call.to], d) + Paid(d)

\* What a longer list asks for.
LEMMA AskedMore ==
  ASSUME NEW coins \in Seq(Coin), NEW k \in Nat, k + 1 \in 1 .. Len(coins), NEW d \in Denoms
  PROVE  /\ SumFunctionOnSet(Asked(coins, d), 1 .. k) \in Int
         /\ SumFunctionOnSet(Asked(coins, d), 1 .. k + 1) =
              SumFunctionOnSet(Asked(coins, d), 1 .. k)
                + (IF coins[k + 1].denom = d THEN coins[k + 1].amount ELSE 0)
<1> DEFINE f == Asked(coins, d)
           old == 1 .. k
<1>1. \A i \in 1 .. Len(coins) : coins[i].amount \in Int
  <2>1. \A i \in 1 .. Len(coins) : coins[i] \in Coin
    OBVIOUS
  <2> QED BY <2>1, BankAssumption DEF Coin
<1>2. /\ \A i \in 1 .. Len(coins) : f[i] \in Int
      /\ f[k + 1] = IF coins[k + 1].denom = d THEN coins[k + 1].amount ELSE 0
  BY <1>1 DEF Asked
<1>3. /\ IsFiniteSet(old) /\ 1 .. k + 1 = old \cup {k + 1} /\ k + 1 \notin old
      /\ old \cup {k + 1} \subseteq 1 .. Len(coins)
  <2>1. IsFiniteSet(old)
    BY FS_Interval
  <2>2. 1 .. k + 1 = old \cup {k + 1} /\ k + 1 \notin old
    OBVIOUS
  <2>3. old \cup {k + 1} \subseteq 1 .. Len(coins)
    <3>1. Len(coins) \in Nat
      OBVIOUS
    <3> QED BY <3>1
  <2> QED BY <2>1, <2>2, <2>3
<1> HIDE DEF f, old
<1>4. SumFunctionOnSet(f, old \cup {k + 1}) = f[k + 1] + SumFunctionOnSet(f, old)
  BY <1>2, <1>3, SumAdd
<1>5. SumFunctionOnSet(f, old) \in Int /\ f[k + 1] \in Int
  BY <1>2, <1>3, SumInt
<1>6. SumFunctionOnSet(f, 1 .. k + 1) = SumFunctionOnSet(f, old) + f[k + 1]
  <2>1. SumFunctionOnSet(f, 1 .. k + 1) = f[k + 1] + SumFunctionOnSet(f, old)
    BY <1>3, <1>4
  <2> QED BY <1>5, <2>1
<1> QED BY <1>2, <1>5, <1>6 DEF f, old

\* One more coin has moved.
LEMMA ExactLoop == IInv /\ ExactSoFar /\ LoopCoin => ExactSoFar'
<1> SUFFICES ASSUME IInv, ExactSoFar, LoopCoin, call.kind = "send" PROVE ExactSoFar'
  BY DEF LoopCoin, ExactSoFar
<1> DEFINE c == Head(todo)
           e == c.denom
           n == c.amount
           k == Handled
<1>1. /\ pc = "loop" /\ pc' = pc /\ bal' = bal /\ call' = call
      /\ todo' = Tail(todo) /\ todo # <<>> /\ todo \in Seq(Coin)
      /\ call.coins \in Seq(Coin) /\ call.from \in Accounts /\ call.to \in Accounts
      /\ bal \in [Accounts -> Balances] /\ src \in Balances /\ dst \in Balances
      /\ Debits /\ Credits
  BY DEF LoopCoin, IInv, TypeOK, CallShape, Debits, Credits
<1>2. /\ k \in Nat /\ k = Len(call.coins) - Len(todo)
      /\ \A i \in 1 .. Len(todo) : todo[i] = call.coins[k + i]
      /\ \A d \in Denoms : /\ Val(src, d) = Val(bal[call.from], d) - Paid(d)
                           /\ Val(dst, d) = Val(bal[call.to], d) + Paid(d)
  BY <1>1 DEF ExactSoFar, Handled
<1>3. /\ e \in Denoms /\ n \in Nat
      /\ Val(src', e) = Val(src, e) - n /\ Val(dst', e) = Val(dst, e) + n
      /\ \A d \in Denoms \ {e} : Val(src', d) = Val(src, d) /\ Val(dst', d) = Val(dst, d)
  BY <1>1, LoopFacts
<1>4. /\ Len(todo) \in Nat /\ Len(todo) >= 1 /\ Len(Tail(todo)) = Len(todo) - 1
      /\ Len(call.coins) \in Nat
      /\ \A i \in 1 .. Len(todo) - 1 : Tail(todo)[i] = todo[i + 1]
      /\ c = todo[1]
  BY <1>1
<1>5. /\ Handled' = k + 1 /\ k + 1 \in 1 .. Len(call.coins)
      /\ c = call.coins[k + 1]
  BY <1>1, <1>2, <1>4 DEF Handled
<1>6. \A i \in 1 .. Len(todo') : todo'[i] = call.coins[Handled' + i]
  <2> SUFFICES ASSUME NEW i \in 1 .. Len(todo) - 1 PROVE todo'[i] = call.coins[k + 1 + i]
    BY <1>1, <1>4, <1>5
  <2> HIDE DEF k
  <2>0. k \in Nat /\ Len(todo) \in Nat
    BY <1>2, <1>4
  <2>1. i + 1 \in 1 .. Len(todo) /\ k + (i + 1) = k + 1 + i
    BY <2>0
  <2> QED BY <1>1, <1>2, <1>4, <2>1
<1>7. ASSUME NEW d \in Denoms
      PROVE  Paid(d) \in Int /\ Paid(d)' = Paid(d) + (IF e = d THEN n ELSE 0)
  <2>1. /\ Paid(d) = SumFunctionOnSet(Asked(call.coins, d), 1 .. k)
        /\ Paid(d)' = SumFunctionOnSet(Asked(call.coins, d), 1 .. k + 1)
    BY <1>1, <1>5 DEF Paid, Asked
  <2> HIDE DEF k, n, e, c
  <2>2. /\ SumFunctionOnSet(Asked(call.coins, d), 1 .. k) \in Int
        /\ SumFunctionOnSet(Asked(call.coins, d), 1 .. k + 1) =
             SumFunctionOnSet(Asked(call.coins, d), 1 .. k)
               + (IF call.coins[k + 1].denom = d THEN call.coins[k + 1].amount ELSE 0)
    BY <1>1, <1>2, <1>5, AskedMore
  <2> QED BY <1>5, <2>1, <2>2 DEF e, n
<1>8. \A d \in Denoms : Val(bal[call.from], d) \in Nat /\ Val(bal[call.to], d) \in Nat
  BY <1>1, ValTyped
<1> HIDE DEF c, e, n, k
<1>9. ASSUME NEW d \in Denoms
      PROVE  /\ Val(src', d) = Val(bal[call.from], d) - Paid(d)'
             /\ Val(dst', d) = Val(bal[call.to], d) + Paid(d)'
  <2>1. CASE d = e
    BY <1>2, <1>3, <1>7, <1>8, <2>1
  <2>2. CASE d # e
    <3>1. Paid(d)' = Paid(d)
      BY <1>7, <2>2
    <3> QED BY <1>2, <1>3, <2>2, <3>1
  <2> QED BY <2>1, <2>2
<1> QED BY <1>1, <1>2, <1>5, <1>6, <1>9 DEF ExactSoFar

\* A transfer starts with all of its coins to handle, and exact copies.
LEMMA ExactStep == IInv /\ IInv' /\ ExactSoFar /\ [Next]_vars => ExactSoFar'
<1> SUFFICES ASSUME IInv, IInv', ExactSoFar, [Next]_vars PROVE ExactSoFar'
  OBVIOUS
<1>1. ASSUME NEW r \in Routes, NEW coins \in Messages, SendReadSrc(r[1], r[2], coins)
      PROVE  ExactSoFar'
  <2>1. pc' = "read_dst" /\ call'.coins = coins /\ todo' = coins
    BY <1>1 DEF SendReadSrc, Start
  <2>2. coins \in Seq(Coin)
    BY MessageFacts
  <2>3. Len(coins) \in Nat /\ Handled' = 0
    BY <2>1, <2>2 DEF Handled
  <2> QED BY <2>1, <2>3 DEF ExactSoFar
<1>2. CASE SendReadDst
  <2>1. /\ pc = "read_dst" /\ pc' = "loop" /\ call' = call /\ todo' = todo
        /\ src' = src /\ bal' = bal /\ dst' = bal[call.to] /\ src = bal[call.from]
        /\ call.kind = "send" /\ call.from \in Accounts /\ call.to \in Accounts
        /\ bal \in [Accounts -> Balances] /\ Handled' = Handled
    BY <1>2 DEF SendReadDst, IInv, TypeOK, CallShape, SrcFresh, Handled
  <2>2. /\ Handled = 0 /\ \A i \in 1 .. Len(todo) : todo[i] = call.coins[Handled + i]
    BY <2>1 DEF ExactSoFar
  <2>3. \A d \in Denoms : Paid(d)' = 0
    <3>1. 1 .. 0 = {}
      OBVIOUS
    <3> QED BY <2>1, <2>2, <3>1, SumEmpty DEF Paid
  <2>4. \A d \in Denoms : Val(bal[call.from], d) \in Nat /\ Val(bal[call.to], d) \in Nat
    BY <2>1, ValTyped
  <2> QED BY <2>1, <2>2, <2>3, <2>4 DEF ExactSoFar
<1>3. CASE LoopCoin
  BY <1>3, ExactLoop
<1>4. CASE LoopErr \/ SendSetSrc \/ SendSetDst \/ MintSet \/ BurnSet
  BY <1>4 DEF LoopErr, SendSetSrc, SendSetDst, MintSet, BurnSet, Return, ExactSoFar
<1>5. ASSUME NEW a \in Accounts, NEW coins \in Messages,
             MintRead(a, coins) \/ BurnRead(a, coins)
      PROVE  ExactSoFar'
  BY <1>5 DEF MintRead, BurnRead, Start, ExactSoFar
<1>6. ASSUME NEW f \in Accounts, DeliverUnknown(f) PROVE ExactSoFar'
  BY <1>6 DEF DeliverUnknown, ExactSoFar, IInv, CallShape
<1>7. CASE UNCHANGED vars
  BY <1>7 DEF vars, ExactSoFar, Handled, Paid
<1> QED BY <1>1, <1>2, <1>3, <1>4, <1>5, <1>6, <1>7 DEF Next

\* A transfer moves exactly what its coins ask for, for every list of coins,
\* those that list a denomination twice and those to oneself among them.
THEOREM TransfersAreExact == Spec => []ExactTransfer
<1>1. Init => ExactSoFar
  BY DEF Init, NoCall, ExactSoFar
<1>2. IInv /\ ExactSoFar => ExactTransfer
  <2> SUFFICES ASSUME IInv, ExactSoFar, call.kind = "send", pc = "loop", todo = <<>>,
                      NEW d \in Denoms
               PROVE  /\ Val(src, d) = Val(bal[call.from], d) - Due(call.coins, d)
                      /\ Val(dst, d) = Val(bal[call.to], d) + Due(call.coins, d)
    BY DEF ExactTransfer
  <2>1. call.coins \in Seq(Coin) /\ DOMAIN Asked(call.coins, d) = DOMAIN call.coins
    BY DEF IInv, TypeOK, Asked
  <2>2. Handled = Len(call.coins) /\ 1 .. Handled = DOMAIN Asked(call.coins, d)
    BY <2>1 DEF Handled
  <2>3. Due(call.coins, d) = SumFunction(Asked(call.coins, d))
    BY DEF Due, Asked
  <2>4. Due(call.coins, d) = Paid(d)
    BY <2>2, <2>3, SumFunctionDef DEF Paid
  <2> QED BY <2>4 DEF ExactSoFar
<1> QED BY <1>1, <1>2, InitInv, StepInv, ExactStep, PTL DEF Spec
=============================================================================
