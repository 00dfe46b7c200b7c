------------------------------- MODULE Ledger -------------------------------
(***************************************************************************)
(* What the bank promises: amounts per account and denomination; a         *)
(* transfer moves some amounts between two accounts in one step, and only  *)
(* minting and burning, which are accounted for, change what exists.       *)
(***************************************************************************)
EXTENDS Integers

CONSTANTS Accounts, Denoms, MaxAmount

VARIABLES bal,      \* bal[a][d]: the amount of d that a owns
          issued    \* issued[d]: what was minted of d, less what was burned

vars == <<bal, issued>>

Amounts == [Denoms -> 0 .. MaxAmount]

Init == /\ bal \in [Accounts -> Amounts]
        /\ issued = [d \in Denoms |-> 0]

\* Move `moved` from f to t; a transfer to oneself changes nothing.
Transfer(f, t, moved) ==
  /\ \A d \in Denoms : moved[d] <= bal[f][d]
  /\ \/ /\ f = t
        /\ UNCHANGED bal
     \/ /\ f # t
        /\ \A d \in Denoms : bal[t][d] + moved[d] <= MaxAmount
        /\ bal' = [bal EXCEPT ![f] = [d \in Denoms |-> bal[f][d] - moved[d]],
                              ![t] = [d \in Denoms |-> bal[t][d] + moved[d]]]
  /\ UNCHANGED issued

Mint(a, new) ==
  /\ \A d \in Denoms : bal[a][d] + new[d] <= MaxAmount
  /\ bal' = [bal EXCEPT ![a] = [d \in Denoms |-> bal[a][d] + new[d]]]
  /\ issued' = [d \in Denoms |-> issued[d] + new[d]]

Burn(a, old) ==
  /\ \A d \in Denoms : old[d] <= bal[a][d]
  /\ bal' = [bal EXCEPT ![a] = [d \in Denoms |-> bal[a][d] - old[d]]]
  /\ issued' = [d \in Denoms |-> issued[d] - old[d]]

Next ==
  \E x \in Amounts :
    \/ \E f \in Accounts, t \in Accounts : Transfer(f, t, x)
    \/ \E a \in Accounts : Mint(a, x) \/ Burn(a, x)

Spec == Init /\ [][Next]_vars
=============================================================================
