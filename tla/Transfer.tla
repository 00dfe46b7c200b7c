------------------------------ MODULE Transfer ------------------------------
(***************************************************************************)
(* Token transfer between two basecoin chains over one unordered channel:  *)
(* the transfer application (modules/src/ibc/transfer.rs) on the packet    *)
(* bookkeeping of the IBC host (modules/src/ibc/impls.rs), with a relayer  *)
(* that may lose, repeat, delay and reorder every message, and prove a     *)
(* timeout as soon as the code lets it.  A message is one step: that a     *)
(* transaction is all or nothing, in all stores, is the subject of         *)
(* BaseCoinApp.  A denomination is named after the chain it comes from; on *)
(* the other chain it is a voucher.                                        *)
(***************************************************************************)
EXTENDS Integers, FiniteSets, Functions

CONSTANTS
  Chains,       \* the two chains
  Amounts,      \* amounts of a transfer
  Timeouts,     \* timeout heights of a packet
  Supply,       \* what the user of a chain has of its own coin at genesis
  MaxPackets,   \* bound: packets sent by a chain
  MaxHeight     \* bound: committed blocks of a chain

ASSUME TransferAssumption ==
  /\ \E c, d \in Chains : c # d /\ Chains = {c, d}
  /\ Amounts \subseteq Nat \ {0}
  /\ Timeouts \subseteq Nat \ {0}
  /\ Supply \in Nat /\ MaxPackets \in Nat /\ MaxHeight \in Nat

VARIABLES
  height,       \* height[c]: current_height of c's stores, the last commit
  bank,         \* bank[c]: balances of c's user and of c's escrow account
  host,         \* host[c]: the packet entries of c's IBC store
  sent,         \* sent[c][n]: the n-th packet c has sent, known to relayers
  refunded,     \* refunded[c]: the packets whose timeout c has processed
  panicked      \* panicked[c]: the handler that panicked, or "none"

vars == <<height, bank, host, sent, refunded, panicked>>

Seqs == 1 .. MaxPackets
Other(c) == CHOOSE d \in Chains : d # c

Packet == [origin : Chains, amount : Amounts, timeout : Timeouts,
           parses : BOOLEAN, block : Nat]

Bank == [user : [Chains -> Nat], escrow : [Chains -> Nat]]

Host == [nextSend : Nat, commitments : SUBSET Seqs,
         receipts : [Seqs -> Nat], acks : [Seqs -> {"none", "ok", "error"}]]

-----------------------------------------------------------------------------
(* The transfer application on the bank.  Each unwraps the bank's answer,  *)
(* so a balance that is too low is a panic and not an error.               *)

EscrowCoins(b, o, n) ==
  [user |-> [b.user EXCEPT ![o] = @ - n], escrow |-> [b.escrow EXCEPT ![o] = @ + n]]

UnescrowCoins(b, o, n) ==
  [user |-> [b.user EXCEPT ![o] = @ + n], escrow |-> [b.escrow EXCEPT ![o] = @ - n]]

MintCoins(b, o, n) == [b EXCEPT !.user[o] = @ + n]

BurnCoins(b, o, n) == [b EXCEPT !.user[o] = @ - n]

\* External: the ibc crate escrows what the chain issues and burns vouchers.
SendCoins(c, o, n) ==
  IF o = c THEN EscrowCoins(bank[c], o, n) ELSE BurnCoins(bank[c], o, n)
\* External: what comes home is unescrowed, vouchers are minted; a refund
\* takes the same way back.
ReceiveCoins(c, o, n) ==
  IF o = c THEN UnescrowCoins(bank[c], o, n) ELSE MintCoins(bank[c], o, n)
\* send_coins finds less in the escrow account than is asked for.
UnescrowFails(c, o, n) == o = c /\ bank[c].escrow[o] < n

-----------------------------------------------------------------------------
(* The packet entries of the host.                                         *)

GetNextSequenceSend(h) == h.nextSend
StoreNextSequenceSend(h, n) == [h EXCEPT !.nextSend = n]

HasPacketCommitment(h, n) == n \in h.commitments
StorePacketCommitment(h, n) == [h EXCEPT !.commitments = @ \cup {n}]
\* Mutant: nothing is deleted.
DeleteNoPacketCommitment(h, n) == h
DeletePacketCommitment(h, n) == [h EXCEPT !.commitments = @ \ {n}]

\* Mutant: a receipt is never found.
HasNoPacketReceipt(h, n) == FALSE
HasPacketReceipt(h, n) == h.receipts[n] # 0
StorePacketReceipt(h, n, block) == [h EXCEPT !.receipts[n] = block]

\* Mutant: the acknowledgement is not stored.
StoreNoPacketAcknowledgement(h, n, a) == h
StorePacketAcknowledgement(h, n, a) == [h EXCEPT !.acks[n] = a]

\* Mutant: one block behind that.
HostHeightStale(c) == height[c] - 1

\* host_height: the last committed block, not the one being executed.
HostHeight(c) == height[c]

\* External: the expiry test of the ibc crate.
HasExpired(t, h) == h > t

\* A proof at height h shows the state after block h - 1, whose root is in
\* the header of h; it can be had once block h is committed.
Shown(block, h) == block # 0 /\ block < h

(* What relayers query (QueryContext).                                     *)

PacketCommitments(c) == host[c].commitments
PacketAcknowledgements(c, seqs) ==
  {n \in IF seqs = {} THEN Seqs ELSE seqs : host[c].acks[n] # "none"}
UnreceivedPackets(c, seqs) == {n \in seqs : ~HasPacketReceipt(host[c], n)}
UnreceivedAcks(c, seqs) ==
  {n \in IF seqs = {} THEN host[c].commitments ELSE seqs :
     HasPacketCommitment(host[c], n)}

-----------------------------------------------------------------------------
Init ==
  /\ height = [c \in Chains |-> 1]
  /\ bank = [c \in Chains |->
              [user |-> [o \in Chains |-> IF o = c THEN Supply ELSE 0],
               escrow |-> [o \in Chains |-> 0]]]
  /\ host = [c \in Chains |->
              [nextSend |-> 1, commitments |-> {},
               receipts |-> [n \in Seqs |-> 0],
               acks |-> [n \in Seqs |-> "none"]]]
  /\ sent = [c \in Chains |-> <<>>]
  /\ refunded = [c \in Chains |-> {}]
  /\ panicked = [c \in Chains |-> "none"]

Alive(c) == panicked[c] = "none"

Commit(c) ==
  /\ Alive(c)
  /\ height[c] < MaxHeight
  /\ height' = [height EXCEPT ![c] = @ + 1]
  /\ UNCHANGED <<bank, host, sent, refunded, panicked>>

\* A panic in deliver_msg poisons the lock on the modules: every later
\* request to the chain panics, too.
Panic(c, what) ==
  /\ panicked' = [panicked EXCEPT ![c] = what]
  /\ UNCHANGED <<height, bank, host, sent, refunded>>

\* process_message of a MsgTransfer: the coins first, then the packet.
SendTransfer(c, p) ==
  LET n == GetNextSequenceSend(host[c]) IN
  /\ Alive(c)
  /\ n \in Seqs
  /\ bank[c].user[p.origin] >= p.amount
  /\ bank' = [bank EXCEPT ![c] = SendCoins(c, p.origin, p.amount)]
  /\ host' = [host EXCEPT
               ![c] = StorePacketCommitment(StoreNextSequenceSend(@, n + 1), n)]
  /\ sent' = [sent EXCEPT ![c] = [i \in 1 .. n |-> IF i = n THEN p ELSE @[i]]]
  /\ UNCHANGED <<height, refunded, panicked>>

SendUnpaid(c, p) ==
  /\ Alive(c)
  /\ bank[c].user[p.origin] < p.amount
  /\ Panic(c, "send")

\* The conditions under which a MsgRecvPacket for packet n from c is executed.
Receivable(c, n) ==
  LET d == Other(c) IN
  /\ Alive(d)
  /\ n \in DOMAIN sent[c]
  /\ Shown(sent[c][n].block, height[c])
  /\ ~HasExpired(sent[c][n].timeout, HostHeight(d))

\* The receipt, the application, the acknowledgement.  A packet that was
\* received already is answered with success and no effect.
RecvPacket(c, n) ==
  LET d == Other(c)
      p == sent[c][n]
      got == StorePacketReceipt(host[d], n, height[d] + 1)
  IN
  /\ Receivable(c, n)
  /\ ~HasPacketReceipt(host[d], n)
  /\ IF p.parses /\ UnescrowFails(d, p.origin, p.amount)
     THEN Panic(d, "recv")
     ELSE /\ host' = [host EXCEPT ![d] = StorePacketAcknowledgement(
                        got, n, IF p.parses THEN "ok" ELSE "error")]
          /\ bank' = [bank EXCEPT ![d] =
                        IF p.parses THEN ReceiveCoins(d, p.origin, p.amount) ELSE @]
          /\ UNCHANGED <<height, sent, refunded, panicked>>

\* The acknowledgement, good or bad, deletes the commitment and does nothing
\* else: on_acknowledgement_packet_execute does not look at it.
AckPacket(c, n) ==
  LET d == Other(c) IN
  /\ Alive(c)
  /\ HasPacketCommitment(host[c], n)
  /\ host[d].acks[n] # "none"
  /\ Shown(host[d].receipts[n], height[d])
  /\ host' = [host EXCEPT ![c] = DeletePacketCommitment(@, n)]
  /\ UNCHANGED <<height, bank, sent, refunded, panicked>>

\* A relayer shows, at height h of the other chain, that the timeout is past
\* and that there is no receipt: none in the blocks before h.
TimedOut(c, n, h) ==
  /\ Alive(c)
  /\ HasPacketCommitment(host[c], n)
  /\ HasExpired(sent[c][n].timeout, h)
  /\ ~Shown(host[Other(c)].receipts[n], h)

TimeoutPacket(c, n, h) ==
  LET p == sent[c][n] IN
  /\ TimedOut(c, n, h)
  /\ IF UnescrowFails(c, p.origin, p.amount)
     THEN Panic(c, "timeout")
     ELSE /\ host' = [host EXCEPT ![c] = DeletePacketCommitment(@, n)]
          /\ bank' = [bank EXCEPT ![c] = ReceiveCoins(c, p.origin, p.amount)]
          /\ refunded' = [refunded EXCEPT ![c] = @ \cup {n}]
          /\ UNCHANGED <<height, sent, panicked>>

NewPackets(c) ==
  [origin : Chains, amount : Amounts, timeout : Timeouts,
   parses : BOOLEAN, block : {height[c] + 1}]

Next ==
  \E c \in Chains :
    \/ Commit(c)
    \/ \E p \in NewPackets(c) : SendTransfer(c, p) \/ SendUnpaid(c, p)
    \/ \E n \in Seqs :
         \/ RecvPacket(c, n)
         \/ AckPacket(c, n)
         \/ \E h \in 1 .. height[Other(c)] : TimeoutPacket(c, n, h)

Spec == Init /\ [][Next]_vars

-----------------------------------------------------------------------------
\* Type invariant: no balance is negative, whatever is paid out or burnt.
TypeOK ==
  /\ height \in [Chains -> Nat]
  /\ bank \in [Chains -> Bank]
  /\ host \in [Chains -> Host]
  /\ \A c \in Chains : \E k \in 0 .. MaxPackets : sent[c] \in [1 .. k -> Packet]
  /\ refunded \in [Chains -> SUBSET Seqs]
  /\ panicked \in [Chains -> {"none", "send", "recv", "timeout"}]

\* The packets of s whose coins are neither with the receiver nor back with
\* the sender, and those whose coins are with both.
Unsettled(s) ==
  {n \in DOMAIN sent[s] : host[Other(s)].acks[n] # "ok" /\ n \notin refunded[s]}
PaidTwice(s) == {n \in DOMAIN sent[s] \cap refunded[s] : host[Other(s)].acks[n] = "ok"}

\* The coins of origin o in the packets S of s.
Coins(s, S, o) ==
  SumFunctionOnSet([n \in DOMAIN sent[s] |-> sent[s][n].amount],
                   {n \in S : sent[s][n].origin = o})

Underway(s, o) == Coins(s, Unsettled(s), o)
Overpaid(s, o) == Coins(s, PaidTwice(s), o)

\* Every voucher is covered and nothing is locked up that is not accounted for,
\* whatever is lost, repeated or late: the escrow account holds the vouchers of
\* the other chain and the coins under way in both directions, short of exactly
\* the coins of the packets that were both received and refunded.
EscrowBacksVouchers ==
  \A c \in Chains :
    LET d == Other(c) IN
    bank[c].escrow[c] + Overpaid(c, c) + Overpaid(d, c)
      = bank[d].user[c] + Underway(c, c) + Underway(d, c)

\* A packet can be both received on one chain and refunded on the other, and
\* the window for that is one block: host_height being the last committed one,
\* a packet is received up to the block after its timeout height, while the
\* header of that block, which shows the block before, is enough to prove the
\* timeout.  A receipt in any other block excludes the refund, and a refund
\* every later receipt.
TwiceOnlyAtExpiry ==
  \A c \in Chains : \A n \in refunded[c] :
    host[Other(c)].receipts[n] \in {0, sent[c][n].timeout + 1}

\* Packets of s that were received, with success, in that block.
AtExpiry(s) ==
  {n \in DOMAIN sent[s] : /\ host[Other(s)].acks[n] = "ok"
                          /\ host[Other(s)].receipts[n] = sent[s][n].timeout + 1}

\* Nothing else makes the unwraps on unescrow and refund panic: a chain that a
\* receipt or a timeout has halted is short of coins of its own over a packet
\* that was received in the block after its timeout height.
OnlyExpiryPanics ==
  \A c \in Chains : panicked[c] \in {"recv", "timeout"} =>
    \E s \in Chains : \E n \in AtExpiry(s) : sent[s][n].origin = c

\* A relayer that goes by the queries finds something to do for every packet
\* that is not settled at its source: it is unreceived, or acknowledged.
RelayerHasWork ==
  \A c \in Chains :
    LET open == PacketCommitments(c) IN
    UnreceivedAcks(c, {}) \subseteq
      UnreceivedPackets(Other(c), open) \cup PacketAcknowledgements(Other(c), {})

\* "However we use `dispatch()` and simply do all our checks in the
\* `execute()` phase." (ibc/transfer.rs): a transfer that fails the checks
\* fails, and the chain goes on.
ChecksInExecute == \A c \in Chains : panicked[c] # "send"
=============================================================================
