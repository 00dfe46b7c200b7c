---------------------------- MODULE MCBaseCoinApp ----------------------------
(* Three modules: one that intercepts every message (auth), one that keeps *)
(* balances (bank) and one that also writes to the bank's store (ibc) and  *)
(* answers for what is current, as upgrade does.                           *)
EXTENDS Accounts, AbciRequests

CONSTANTS t1, t2, known, stranger

MCTxs == {t1, t2}
MCTouches == <<{1}, {2}, {2, 3}>>
MCBuildWrites == {3}
MCInitWrites == {1, 2}
MCBeginWrites == {3}
MCProving == {3}
MCPlain == {2}
MCCurrent == {3}
MCAddresses == {known, stranger}
MCGenesisAddrs == {known}
=============================================================================
