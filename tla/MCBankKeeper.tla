---------------------------- MODULE MCBankKeeper ----------------------------
(* Three accounts, one of them unknown to auth, two denominations and the  *)
(* largest amount 3.                                                       *)
EXTENDS BankKeeper, TLC

CONSTANTS alice, bob, carol, d1, d2

MCAccounts == {alice, bob, carol}
MCKnown == {alice, bob}
MCDenoms == {d1, d2}
MCCoins == {[denom |-> d1, amount |-> 1], [denom |-> d1, amount |-> 2],
            [denom |-> d2, amount |-> 0]}
MCGenesis == (alice :> (d1 :> 2 @@ d2 :> 0)) @@ (bob :> (d1 :> 1 @@ d2 :> Absent))
             @@ (carol :> (d1 :> Absent @@ d2 :> Absent))
\* Transfers between two different accounts, and transfers to oneself.
MCRoutes == {r \in MCAccounts \X MCAccounts : r[1] # r[2]}
MCSelfRoutes == {<<alice, alice>>}
=============================================================================
