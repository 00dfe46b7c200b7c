--------------------------- MODULE TransferProofs ---------------------------
(***************************************************************************)
(* Proofs about module Transfer, for any supply, amounts, timeouts and     *)
(* number of packets and blocks, and for relayers that may do as they      *)
(* please.                                                                 *)
(*                                                                         *)
(* A receipt is at the latest of the block after the timeout height, a     *)
(* refund at the earliest by the header of that block: that leaves one     *)
(* block for a packet that is both received and refunded.  The escrow      *)
(* account is short of exactly the coins of such packets, and nothing else *)
(* makes a packet callback panic.                                          *)
(***************************************************************************)
EXTENDS Transfer, SharedLemmas

\* Each chain has one other chain, and is the other chain of that one.
LEMMA OtherFacts ==
  ASSUME NEW c \in Chains
  PROVE  /\ Other(c) \in Chains /\ Other(c) # c /\ Other(Other(c)) = c
         /\ \A d \in Chains : d = c \/ d = Other(c)
  BY TransferAssumption DEF Other

Types ==
  /\ height \in [Chains -> Nat]
  /\ host \in [Chains -> Host]
  /\ refunded \in [Chains -> SUBSET Seqs]

\* What has been sent so far, and that what is open has been sent.
SentSoFar ==
  /\ DOMAIN sent = Chains
  /\ \A c \in Chains :
       /\ host[c].nextSend \in Nat \ {0}
       /\ DOMAIN sent[c] = 1 .. host[c].nextSend - 1
       /\ \A n \in DOMAIN sent[c] : sent[c][n].timeout \in Nat
       /\ host[c].commitments \subseteq DOMAIN sent[c]

\* A packet is received at the latest in the block after its timeout, which
\* is the last one whose host_height is not past it.
ReceivedInTime ==
  \A c \in Chains : \A n \in Seqs :
    host[Other(c)].receipts[n] # 0 =>
      n \in DOMAIN sent[c] /\ host[Other(c)].receipts[n] <= sent[c][n].timeout + 1

\* A packet is refunded only when the timeout height is past, and unless it
\* was received in that block.
RefundedLate ==
  \A c \in Chains : \A n \in refunded[c] :
    /\ n \in DOMAIN sent[c]
    /\ host[Other(c)].receipts[n] \in {0, sent[c][n].timeout + 1}
    /\ height[Other(c)] > sent[c][n].timeout

IInv == Types /\ SentSoFar /\ ReceivedInTime /\ RefundedLate

LEMMA InitIInv == Init => IInv
<1> SUFFICES ASSUME Init PROVE IInv
  OBVIOUS
<1> USE TransferAssumption
<1>1. Types
  BY DEF Init, Types, Host, Seqs
<1>2. SentSoFar
  BY DEF Init, SentSoFar
<1>3. ReceivedInTime
  BY OtherFacts DEF Init, ReceivedInTime
<1>4. RefundedLate
  BY DEF Init, RefundedLate
<1> QED
  BY <1>1, <1>2, <1>3, <1>4 DEF IInv

\* A commit raises a height, which keeps a refund late.
LEMMA CommitKeeps ==
  ASSUME IInv, NEW c \in Chains, Commit(c)
  PROVE  IInv'
<1> USE DEF IInv, Commit
<1>1. Types'
  BY DEF Types
<1>2. SentSoFar'
  BY DEF SentSoFar
<1>3. ReceivedInTime'
  BY DEF ReceivedInTime
<1>4. RefundedLate'
  <2> SUFFICES ASSUME NEW e \in Chains, NEW n \in refunded[e]
               PROVE  height'[Other(e)] > sent[e][n].timeout
    BY DEF RefundedLate
  <2>1. height[Other(e)] > sent[e][n].timeout /\ n \in DOMAIN sent[e]
    BY DEF RefundedLate
  <2>2. sent[e][n].timeout \in Nat
    BY <2>1 DEF SentSoFar
  <2>3. Other(e) \in Chains /\ height[Other(e)] \in Nat
    BY OtherFacts DEF Types
  <2>4. height'[Other(e)] \in {height[Other(e)], height[Other(e)] + 1}
    BY <2>3 DEF Types
  <2> QED
    BY <2>1, <2>2, <2>3, <2>4
<1> QED
  BY <1>1, <1>2, <1>3, <1>4

\* A panic changes none of what the invariant is about.
LEMMA PanicKeeps ==
  ASSUME IInv, NEW c, NEW what, Panic(c, what)
  PROVE  IInv'
  BY DEF IInv, Panic, Types, SentSoFar, ReceivedInTime, RefundedLate

\* A new packet is appended to those sent, and nothing is said of it yet.
LEMMA SendKeeps ==
  ASSUME IInv, NEW c \in Chains, NEW p \in NewPackets(c), SendTransfer(c, p)
  PROVE  IInv'
<1> DEFINE n == host[c].nextSend
<1>1. /\ n \in Seqs
      /\ host' = [host EXCEPT ![c] =
           [[host[c] EXCEPT !.nextSend = n + 1] EXCEPT !.commitments = @ \cup {n}]]
      /\ sent' = [sent EXCEPT ![c] = [i \in 1 .. n |-> IF i = n THEN p ELSE sent[c][i]]]
      /\ height' = height /\ refunded' = refunded
  BY DEF SendTransfer, GetNextSequenceSend, StorePacketCommitment, StoreNextSequenceSend
<1>2. Types /\ SentSoFar
  BY DEF IInv
<1>3. host[c] \in Host /\ n \in Nat \ {0}
  BY <1>2 DEF Types, SentSoFar
<1>4. p.timeout \in Nat
  BY TransferAssumption DEF NewPackets
<1>5. /\ host'[c].nextSend = n + 1 /\ host'[c].commitments = host[c].commitments \cup {n}
      /\ host'[c].receipts = host[c].receipts /\ host'[c] \in Host
  <2> DEFINE h == [[host[c] EXCEPT !.nextSend = n + 1] EXCEPT !.commitments = @ \cup {n}]
  <2>1. host'[c] = h
    BY <1>1, <1>2 DEF Types
  <2>2. /\ h.nextSend = n + 1 /\ h.commitments = host[c].commitments \cup {n}
        /\ h.receipts = host[c].receipts /\ h \in Host
    <3> DEFINE g == [host[c] EXCEPT !.nextSend = n + 1]
    <3>1. n + 1 \in Nat /\ n \in Seqs
      BY <1>1, <1>3
    <3> HIDE DEF n
    <3>2. /\ g \in Host /\ g.nextSend = n + 1 /\ g.receipts = host[c].receipts
          /\ g.commitments = host[c].commitments
      BY <1>3, <3>1 DEF Host
    <3>3. h = [g EXCEPT !.commitments = g.commitments \cup {n}]
      OBVIOUS
    <3> HIDE DEF g, h
    <3> QED
      BY <3>1, <3>2, <3>3 DEF Host
  <2> QED
    BY <2>1, <2>2
<1>6. \A d \in Chains : d # c => host'[d] = host[d] /\ sent'[d] = sent[d]
  BY <1>1, <1>2 DEF Types, SentSoFar
<1>7. \A d \in Chains : host'[d].receipts = host[d].receipts
  BY <1>5, <1>6
<1>8. Types'
  BY <1>1, <1>2, <1>5 DEF Types
<1>9. /\ DOMAIN sent' = Chains /\ DOMAIN sent'[c] = 1 .. n
      /\ \A i \in DOMAIN sent[c] : i \in DOMAIN sent'[c] /\ sent'[c][i] = sent[c][i]
      /\ sent'[c][n].timeout \in Nat
  BY <1>1, <1>2, <1>3, <1>4 DEF SentSoFar
<1>10. SentSoFar'
  <2> SUFFICES ASSUME NEW d \in Chains
               PROVE  /\ host'[d].nextSend \in Nat \ {0}
                      /\ DOMAIN sent'[d] = 1 .. host'[d].nextSend - 1
                      /\ \A i \in DOMAIN sent'[d] : sent'[d][i].timeout \in Nat
                      /\ host'[d].commitments \subseteq DOMAIN sent'[d]
    BY <1>9 DEF SentSoFar
  <2>1. CASE d = c
    <3>1. \A i \in 1 .. n : i = n \/ i \in DOMAIN sent[c]
      BY <1>2, <1>3 DEF SentSoFar
    <3>2. \A i \in DOMAIN sent'[c] : sent'[c][i].timeout \in Nat
      BY <3>1, <1>2, <1>9 DEF SentSoFar
    <3>3. host[c].commitments \subseteq DOMAIN sent[c]
      BY <1>2 DEF SentSoFar
    <3>4. n \in DOMAIN sent'[c] /\ host'[c].commitments \subseteq DOMAIN sent'[c]
      BY <3>3, <1>3, <1>5, <1>9
    <3>5. n + 1 \in Nat \ {0} /\ n = (n + 1) - 1
      BY <1>3
    <3> QED
      BY <2>1, <3>2, <3>4, <3>5, <1>5, <1>9
  <2>2. CASE d # c
    BY <2>2, <1>2, <1>6 DEF SentSoFar
  <2> QED
    BY <2>1, <2>2
<1>11. \A d \in Chains : \A i \in DOMAIN sent[d] :
         i \in DOMAIN sent'[d] /\ sent'[d][i] = sent[d][i]
  BY <1>6, <1>9
<1>12. ReceivedInTime'
  BY <1>7, <1>11, OtherFacts DEF IInv, ReceivedInTime
<1>13. RefundedLate'
  <2> SUFFICES ASSUME NEW e \in Chains, NEW m \in refunded[e]
               PROVE  /\ m \in DOMAIN sent'[e]
                      /\ host'[Other(e)].receipts[m] \in {0, sent'[e][m].timeout + 1}
                      /\ height[Other(e)] > sent'[e][m].timeout
    BY <1>1 DEF RefundedLate
  <2> QED
    BY <1>7, <1>11, OtherFacts DEF IInv, RefundedLate
<1> QED
  BY <1>8, <1>10, <1>12, <1>13 DEF IInv

\* A packet is received while host_height is not past its timeout; by then it
\* has not been refunded.
LEMMA RecvKeeps ==
  ASSUME IInv, NEW c \in Chains, NEW n \in Seqs, RecvPacket(c, n)
  PROVE  IInv'
<1> DEFINE d == Other(c)
           p == sent[c][n]
<1>1. CASE Panic(d, "recv")
  BY <1>1, PanicKeeps
<1>2. CASE ~Panic(d, "recv")
  <2> DEFINE a == IF p.parses THEN "ok" ELSE "error"
             h == [[host[d] EXCEPT !.receipts[n] = height[d] + 1] EXCEPT !.acks[n] = a]
  <2>1. /\ host' = [host EXCEPT ![d] = h]
        /\ height' = height /\ sent' = sent /\ refunded' = refunded
    BY <1>2 DEF RecvPacket, StorePacketReceipt, StorePacketAcknowledgement
  <2>2. n \in DOMAIN sent[c] /\ ~(height[d] > p.timeout)
    BY DEF RecvPacket, Receivable, HasExpired, HostHeight
  <2>3. Types /\ SentSoFar /\ ReceivedInTime /\ RefundedLate
    BY DEF IInv
  <2>4. d \in Chains /\ Other(d) = c /\ height[d] \in Nat /\ host[d] \in Host
    BY <2>3, OtherFacts DEF Types
  <2>5. p.timeout \in Nat
    BY <2>2, <2>3 DEF SentSoFar
  <2>6. /\ h \in Host /\ h.nextSend = host[d].nextSend
        /\ h.commitments = host[d].commitments
        /\ h.receipts = [host[d].receipts EXCEPT ![n] = height[d] + 1]
    <3>1. height[d] + 1 \in Nat /\ a \in {"none", "ok", "error"}
      BY <2>4
    <3> HIDE DEF a, d
    <3> QED
      BY <2>4, <3>1 DEF Host
  <2>7. host'[d] = h /\ \A e \in Chains : e # d => host'[e] = host[e]
    BY <2>1, <2>3, <2>4 DEF Types
  <2> HIDE DEF h
  <2>8. Types'
    BY <2>1, <2>3, <2>4, <2>6 DEF Types
  <2>9. SentSoFar'
    BY <2>1, <2>3, <2>6, <2>7 DEF SentSoFar
  <2>10. n \notin refunded[c]
    BY <2>2, <2>3, <2>4, <2>5 DEF RefundedLate
  <2>11. \A e \in Chains : \A m \in Seqs :
           \/ e = c /\ m = n /\ host'[Other(e)].receipts[m] = height[d] + 1
           \/ ~(e = c /\ m = n) /\ host'[Other(e)].receipts[m] = host[Other(e)].receipts[m]
    <3> SUFFICES ASSUME NEW e \in Chains, NEW m \in Seqs
                 PROVE  \/ e = c /\ m = n /\ host'[Other(e)].receipts[m] = height[d] + 1
                        \/ /\ ~(e = c /\ m = n)
                           /\ host'[Other(e)].receipts[m] = host[Other(e)].receipts[m]
      OBVIOUS
    <3>1. CASE e = c
      <4>1. host[d].receipts \in [Seqs -> Nat]
        BY <2>4 DEF Host
      <4> QED
        BY <3>1, <4>1, <2>6, <2>7
    <3>2. CASE e # c
      <4>1. Other(e) # d /\ Other(e) \in Chains
        BY <3>2, <2>4, OtherFacts
      <4> QED
        BY <3>2, <4>1, <2>7
    <3> QED
      BY <3>1, <3>2
  <2>12. ReceivedInTime'
    <3> SUFFICES ASSUME NEW e \in Chains, NEW m \in Seqs,
                        host'[Other(e)].receipts[m] # 0
                 PROVE  /\ m \in DOMAIN sent[e]
                        /\ host'[Other(e)].receipts[m] <= sent[e][m].timeout + 1
      BY <2>1 DEF ReceivedInTime
    <3>1. CASE e = c /\ m = n
      BY <3>1, <2>2, <2>4, <2>5, <2>11
    <3>2. CASE ~(e = c /\ m = n)
      BY <3>2, <2>3, <2>11 DEF ReceivedInTime
    <3> QED
      BY <3>1, <3>2
  <2>13. RefundedLate'
    <3> SUFFICES ASSUME NEW e \in Chains, NEW m \in refunded[e]
                 PROVE  /\ m \in DOMAIN sent[e]
                        /\ host'[Other(e)].receipts[m] \in {0, sent[e][m].timeout + 1}
                        /\ height[Other(e)] > sent[e][m].timeout
      BY <2>1 DEF RefundedLate
    <3>1. m \in Seqs /\ ~(e = c /\ m = n)
      BY <2>3, <2>10 DEF Types
    <3> QED
      BY <3>1, <2>3, <2>11 DEF RefundedLate
  <2> QED
    BY <2>8, <2>9, <2>12, <2>13 DEF IInv
<1> QED
  BY <1>1, <1>2

\* Deleting a commitment concerns nothing else.
LEMMA DeletePacketCommitmentFacts ==
  ASSUME Types, SentSoFar, NEW c \in Chains, NEW n \in Seqs,
         host' = [host EXCEPT ![c] = DeletePacketCommitment(@, n)],
         height' = height, sent' = sent
  PROVE  /\ host' \in [Chains -> Host] /\ SentSoFar'
         /\ \A d \in Chains : host'[d].receipts = host[d].receipts
<1> DEFINE h == [host[c] EXCEPT !.commitments = @ \ {n}]
<1>1. host' = [host EXCEPT ![c] = h]
  BY DEF DeletePacketCommitment
<1>2. /\ h \in Host /\ h.nextSend = host[c].nextSend /\ h.receipts = host[c].receipts
      /\ h.commitments \subseteq host[c].commitments
  BY DEF Types, Host
<1> HIDE DEF h
<1>3. host'[c] = h /\ \A d \in Chains : d # c => host'[d] = host[d]
  BY <1>1 DEF Types
<1>4. host' \in [Chains -> Host]
  BY <1>1, <1>2 DEF Types
<1>5. SentSoFar'
  BY <1>2, <1>3 DEF SentSoFar
<1> QED
  BY <1>2, <1>3, <1>4, <1>5

LEMMA AckKeeps ==
  ASSUME IInv, NEW c \in Chains, NEW n \in Seqs, AckPacket(c, n)
  PROVE  IInv'
<1>1. /\ host' \in [Chains -> Host] /\ SentSoFar'
      /\ \A d \in Chains : host'[d].receipts = host[d].receipts
  BY DeletePacketCommitmentFacts DEF IInv, AckPacket
<1>2. height' = height /\ sent' = sent /\ refunded' = refunded
  BY DEF AckPacket
<1>3. Types'
  BY <1>1, <1>2 DEF IInv, Types
<1>4. ReceivedInTime' /\ RefundedLate'
  BY <1>1, <1>2, OtherFacts DEF IInv, ReceivedInTime, RefundedLate
<1> QED
  BY <1>1, <1>3, <1>4 DEF IInv

\* The proof that a packet is not received is of a header past its timeout;
\* what it does not show can only have happened in the block of that header.
LEMMA TimeoutUnreceived ==
  ASSUME IInv, NEW c \in Chains, NEW n \in Seqs,
         NEW h \in 1 .. height[Other(c)], TimeoutPacket(c, n, h)
  PROVE  /\ n \in DOMAIN sent[c]
         /\ host[Other(c)].receipts[n] \in {0, sent[c][n].timeout + 1}
         /\ height[Other(c)] > sent[c][n].timeout
<1>1. /\ n \in host[c].commitments
      /\ h > sent[c][n].timeout
      /\ ~(host[Other(c)].receipts[n] # 0 /\ host[Other(c)].receipts[n] < h)
  BY DEF TimeoutPacket, TimedOut, HasPacketCommitment, HasExpired, Shown
<1>2. n \in DOMAIN sent[c] /\ sent[c][n].timeout \in Nat
  BY <1>1 DEF IInv, SentSoFar
<1>3. Other(c) \in Chains /\ height[Other(c)] \in Nat /\ host[Other(c)].receipts[n] \in Nat
  BY OtherFacts DEF IInv, Types, Host
<1>4. h \in Nat /\ h <= height[Other(c)]
  BY <1>3
<1>5. host[Other(c)].receipts[n] # 0 => host[Other(c)].receipts[n] <= sent[c][n].timeout + 1
  BY DEF IInv, ReceivedInTime
<1> QED
  BY <1>1, <1>2, <1>3, <1>4, <1>5

\* So a refund is late.
LEMMA TimeoutKeeps ==
  ASSUME IInv, NEW c \in Chains, NEW n \in Seqs,
         NEW h \in 1 .. height[Other(c)], TimeoutPacket(c, n, h)
  PROVE  IInv'
<1>1. CASE Panic(c, "timeout")
  BY <1>1, PanicKeeps
<1>2. CASE ~Panic(c, "timeout")
  <2>1. /\ host' = [host EXCEPT ![c] = DeletePacketCommitment(@, n)]
        /\ height' = height /\ sent' = sent
        /\ refunded' = [refunded EXCEPT ![c] = @ \cup {n}]
    BY <1>2 DEF TimeoutPacket
  <2>2. /\ host' \in [Chains -> Host] /\ SentSoFar'
        /\ \A d \in Chains : host'[d].receipts = host[d].receipts
    BY <2>1, DeletePacketCommitmentFacts DEF IInv
  <2>3. Types'
    BY <2>1, <2>2 DEF IInv, Types
  <2>4. ReceivedInTime'
    BY <2>1, <2>2, OtherFacts DEF IInv, ReceivedInTime
  <2>5. /\ n \in DOMAIN sent[c]
        /\ host[Other(c)].receipts[n] \in {0, sent[c][n].timeout + 1}
        /\ height[Other(c)] > sent[c][n].timeout
    BY TimeoutUnreceived
  <2>6. RefundedLate'
    <3> SUFFICES ASSUME NEW e \in Chains, NEW m \in refunded'[e]
                 PROVE  /\ m \in DOMAIN sent[e]
                        /\ host[Other(e)].receipts[m] \in {0, sent[e][m].timeout + 1}
                        /\ height[Other(e)] > sent[e][m].timeout
      BY <2>1, <2>2, OtherFacts DEF RefundedLate
    <3>1. m \in refunded[e] \/ (e = c /\ m = n)
      BY <2>1 DEF IInv, Types
    <3> QED
      BY <3>1, <2>5 DEF IInv, RefundedLate
  <2> QED
    BY <2>2, <2>3, <2>4, <2>6 DEF IInv
<1> QED
  BY <1>1, <1>2

LEMMA NextKeeps ==
  ASSUME IInv, [Next]_vars
  PROVE  IInv'
<1>1. ASSUME NEW c \in Chains, Commit(c) PROVE IInv'
  BY <1>1, CommitKeeps
<1>2. ASSUME NEW c \in Chains, NEW p \in NewPackets(c), SendTransfer(c, p) PROVE IInv'
  BY <1>2, SendKeeps
<1>3. ASSUME NEW c \in Chains, NEW p \in NewPackets(c), SendUnpaid(c, p) PROVE IInv'
  BY <1>3, PanicKeeps DEF SendUnpaid
<1>4. ASSUME NEW c \in Chains, NEW n \in Seqs, RecvPacket(c, n) PROVE IInv'
  BY <1>4, RecvKeeps
<1>5. ASSUME NEW c \in Chains, NEW n \in Seqs, AckPacket(c, n) PROVE IInv'
  BY <1>5, AckKeeps
<1>6. ASSUME NEW c \in Chains, NEW n \in Seqs, NEW h \in 1 .. height[Other(c)],
             TimeoutPacket(c, n, h)
      PROVE IInv'
  BY <1>6, TimeoutKeeps
<1>7. CASE UNCHANGED vars
  BY <1>7 DEF vars, IInv, Types, SentSoFar, ReceivedInTime, RefundedLate
<1> QED
  BY <1>1, <1>2, <1>3, <1>4, <1>5, <1>6, <1>7 DEF Next

\* A packet that on_timeout_packet_execute has refunded is not received on the
\* other chain, before or after, but in the one block after its timeout height,
\* for any values of the constants and whatever relayers do.
THEOREM PacketsSettleOnce == Spec => []TwiceOnlyAtExpiry
<1>1. Init => IInv
  BY InitIInv
<1>2. IInv /\ [Next]_vars => IInv'
  BY NextKeeps
<1>3. IInv => TwiceOnlyAtExpiry
  BY DEF IInv, RefundedLate, TwiceOnlyAtExpiry
<1> QED
  BY <1>1, <1>2, <1>3, PTL DEF Spec
-----------------------------------------------------------------------------
(* Types.                                                                  *)

\* What is open has been sent, so that a refund pays a packet there is.
OpenSent ==
  /\ DOMAIN sent = Chains
  /\ \A c \in Chains : /\ DOMAIN sent[c] = 1 .. host[c].nextSend - 1
                       /\ host[c].nextSend \in Nat \ {0}
                       /\ host[c].commitments \subseteq DOMAIN sent[c]

TypeInv == TypeOK /\ OpenSent

\* Coins move into the escrow account, or are burnt, if the user has them.
LEMMA SendCoinsType ==
  ASSUME TypeOK, NEW c \in Chains, NEW o \in Chains, NEW a \in Nat, bank[c].user[o] >= a
  PROVE  SendCoins(c, o, a) \in Bank
<1>1. bank[c] \in Bank /\ bank[c].user[o] - a \in Nat /\ bank[c].escrow[o] + a \in Nat
  BY DEF TypeOK, Bank
<1>2. EscrowCoins(bank[c], o, a) \in Bank
  BY <1>1 DEF EscrowCoins, Bank
<1>3. BurnCoins(bank[c], o, a) \in Bank
  BY <1>1 DEF BurnCoins, Bank
<1> QED
  BY <1>2, <1>3 DEF SendCoins

\* Coins come out of the escrow account if they are there, or are minted.
LEMMA ReceiveCoinsType ==
  ASSUME TypeOK, NEW c \in Chains, NEW o \in Chains, NEW a \in Nat, ~UnescrowFails(c, o, a)
  PROVE  ReceiveCoins(c, o, a) \in Bank
<1>1. bank[c] \in Bank /\ bank[c].user[o] + a \in Nat
  BY DEF TypeOK, Bank
<1>2. CASE o = c
  <2>1. bank[c].escrow[o] - a \in Nat
    BY <1>1, <1>2 DEF UnescrowFails, Bank
  <2>2. UnescrowCoins(bank[c], o, a) \in Bank
    BY <1>1, <2>1 DEF UnescrowCoins, Bank
  <2> QED
    BY <1>2, <2>2 DEF ReceiveCoins
<1>3. CASE o # c
  BY <1>1, <1>3 DEF ReceiveCoins, MintCoins, Bank
<1> QED
  BY <1>2, <1>3

\* What was sent is a packet.
LEMMA SentPacket ==
  ASSUME TypeOK, NEW c \in Chains, NEW n \in DOMAIN sent[c]
  PROVE  /\ sent[c][n] \in Packet /\ sent[c][n].origin \in Chains
         /\ sent[c][n].amount \in Nat /\ sent[c][n].parses \in BOOLEAN
<1>1. PICK k \in 0 .. MaxPackets : sent[c] \in [1 .. k -> Packet]
  BY DEF TypeOK
<1>2. sent[c][n] \in Packet
  BY <1>1
<1> QED
  BY <1>2, TransferAssumption DEF Packet

\* So is what has been sent after the next step.
LEMMA SentPacketNext ==
  ASSUME TypeOK', NEW c \in Chains, NEW n \in DOMAIN sent'[c]
  PROVE  sent'[c][n] \in Packet /\ sent'[c][n].amount \in Nat
<1>1. PICK k \in 0 .. MaxPackets : sent'[c] \in [1 .. k -> Packet]
  BY DEF TypeOK
<1>2. sent'[c][n] \in Packet
  BY <1>1
<1> QED
  BY <1>2, TransferAssumption DEF Packet

\* A packet that is sent is recorded under the next sequence.
LEMMA SendType ==
  ASSUME TypeInv, NEW c \in Chains, NEW p \in NewPackets(c), SendTransfer(c, p)
  PROVE  TypeInv'
<1> DEFINE n == host[c].nextSend
           h == [[host[c] EXCEPT !.nextSend = n + 1] EXCEPT !.commitments = @ \cup {n}]
           s == [i \in 1 .. n |-> IF i = n THEN p ELSE sent[c][i]]
<1>1. /\ n \in Seqs
      /\ host' = [host EXCEPT ![c] = h]
      /\ sent' = [sent EXCEPT ![c] = s]
      /\ bank' = [bank EXCEPT ![c] = SendCoins(c, p.origin, p.amount)]
      /\ height' = height /\ refunded' = refunded /\ panicked' = panicked
      /\ bank[c].user[p.origin] >= p.amount
  BY DEF SendTransfer, GetNextSequenceSend, StorePacketCommitment, StoreNextSequenceSend
<1>2. TypeOK /\ OpenSent
  BY DEF TypeInv
<1>3. host[c] \in Host /\ n \in Nat \ {0} /\ DOMAIN sent[c] = 1 .. n - 1
      /\ host[c].commitments \subseteq 1 .. n - 1 /\ n <= MaxPackets
  BY <1>1, <1>2, TransferAssumption DEF TypeOK, OpenSent, Seqs
<1>4. p \in Packet /\ p.origin \in Chains /\ p.amount \in Nat
  <2>1. height[c] + 1 \in Nat
    BY <1>2 DEF TypeOK
  <2>2. p \in Packet /\ p.origin \in Chains /\ p.amount \in Amounts
    BY <2>1 DEF NewPackets, Packet
  <2> QED
    BY <2>2, TransferAssumption
<1>5. bank' \in [Chains -> Bank]
  BY <1>1, <1>2, <1>4, SendCoinsType DEF TypeOK
<1>6. h \in Host /\ h.nextSend = n + 1 /\ h.commitments = host[c].commitments \cup {n}
  <2> DEFINE g == [host[c] EXCEPT !.nextSend = n + 1]
  <2>1. g \in Host /\ g.nextSend = n + 1 /\ g.commitments = host[c].commitments
    <3>1. n + 1 \in Nat
      BY <1>3
    <3> HIDE DEF n
    <3> QED
      BY <1>3, <3>1 DEF Host
  <2> HIDE DEF g, n
  <2> QED
    BY <1>1, <2>1 DEF Host, g
<1>7. s \in [1 .. n -> Packet]
  <2> SUFFICES ASSUME NEW i \in 1 .. n, i # n PROVE sent[c][i] \in Packet
    BY <1>4
  <2>1. i \in DOMAIN sent[c]
    BY <1>3
  <2> QED
    BY <1>2, <2>1, SentPacket
<1> HIDE DEF h, s, n
<1>8. host' \in [Chains -> Host] /\ host'[c] = h /\ \A d \in Chains : d # c => host'[d] = host[d]
  BY <1>1, <1>2, <1>6 DEF TypeOK
<1>9. /\ DOMAIN sent' = Chains /\ sent'[c] = s
      /\ \A d \in Chains : d # c => sent'[d] = sent[d]
  BY <1>1, <1>2 DEF OpenSent
<1>10. TypeOK'
  <2>1. \A d \in Chains : \E k \in 0 .. MaxPackets : sent'[d] \in [1 .. k -> Packet]
    <3> SUFFICES ASSUME NEW d \in Chains
                 PROVE  \E k \in 0 .. MaxPackets : sent'[d] \in [1 .. k -> Packet]
      OBVIOUS
    <3>1. CASE d = c
      <4>1. n \in 0 .. MaxPackets
        BY <1>3, TransferAssumption
      <4> QED
        BY <3>1, <4>1, <1>7, <1>9
    <3>2. CASE d # c
      BY <3>2, <1>2, <1>9 DEF TypeOK
    <3> QED
      BY <3>1, <3>2
  <2> QED
    BY <2>1, <1>1, <1>2, <1>5, <1>8 DEF TypeOK
<1>11. OpenSent'
  <2> SUFFICES ASSUME NEW d \in Chains
               PROVE  /\ DOMAIN sent'[d] = 1 .. host'[d].nextSend - 1
                      /\ host'[d].nextSend \in Nat \ {0}
                      /\ host'[d].commitments \subseteq DOMAIN sent'[d]
    BY <1>9 DEF OpenSent
  <2>1. CASE d = c
    <3>1. DOMAIN s = 1 .. n /\ (n + 1) - 1 = n /\ n + 1 \in Nat \ {0} /\ n \in 1 .. n
      BY <1>3, <1>7
    <3>2. host[c].commitments \subseteq 1 .. n
      BY <1>3
    <3> QED
      BY <2>1, <3>1, <3>2, <1>6, <1>8, <1>9
  <2>2. CASE d # c
    BY <2>2, <1>2, <1>8, <1>9 DEF OpenSent
  <2> QED
    BY <2>1, <2>2
<1> QED
  BY <1>10, <1>11 DEF TypeInv

\* A packet that is received pays what is in escrow, or panics.
LEMMA RecvType ==
  ASSUME TypeInv, NEW c \in Chains, NEW n \in Seqs, RecvPacket(c, n)
  PROVE  TypeInv'
<1> DEFINE d == Other(c)
           p == sent[c][n]
           answer == IF p.parses THEN "ok" ELSE "error"
           got == StorePacketReceipt(host[d], n, height[d] + 1)
           h == StorePacketAcknowledgement(got, n, answer)
<1>1. TypeOK /\ OpenSent /\ d \in Chains /\ n \in DOMAIN sent[c]
  BY OtherFacts DEF TypeInv, RecvPacket, Receivable
<1>2. p \in Packet /\ p.origin \in Chains /\ p.amount \in Nat
  BY <1>1, SentPacket
<1>3. CASE p.parses /\ UnescrowFails(d, p.origin, p.amount)
  <2>1. Panic(d, "recv")
    BY <1>3 DEF RecvPacket
  <2> QED
    BY <1>1, <2>1 DEF Panic, TypeInv, TypeOK, OpenSent
<1>4. CASE ~(p.parses /\ UnescrowFails(d, p.origin, p.amount))
  <2>1. /\ host' = [host EXCEPT ![d] = h]
        /\ bank' = [bank EXCEPT ![d] =
                      IF p.parses THEN ReceiveCoins(d, p.origin, p.amount) ELSE bank[d]]
        /\ UNCHANGED <<height, sent, refunded, panicked>>
    BY <1>4 DEF RecvPacket
  <2>2. bank' \in [Chains -> Bank]
    <3>1. CASE p.parses
      BY <1>1, <1>2, <1>4, <2>1, <3>1, ReceiveCoinsType DEF TypeOK
    <3>2. CASE ~p.parses
      BY <1>1, <2>1, <3>2 DEF TypeOK
    <3> QED
      BY <3>1, <3>2
  <2>3. h \in Host /\ h.nextSend = host[d].nextSend /\ h.commitments = host[d].commitments
    <3>1. host[d] \in Host /\ height[d] + 1 \in Nat
      BY <1>1 DEF TypeOK
    <3>2. /\ got \in Host /\ got.nextSend = host[d].nextSend
          /\ got.commitments = host[d].commitments
      BY <3>1 DEF StorePacketReceipt, Host
    <3>3. answer \in {"none", "ok", "error"}
      OBVIOUS
    <3> HIDE DEF got, answer
    <3> QED
      BY <3>2, <3>3 DEF StorePacketAcknowledgement, Host
  <2> HIDE DEF h, d, p
  <2>4. /\ host' \in [Chains -> Host] /\ host'[d] = h
        /\ \A e \in Chains : e # d => host'[e] = host[e]
    BY <1>1, <2>1, <2>3 DEF TypeOK
  <2>5. TypeOK'
    BY <1>1, <2>1, <2>2, <2>4 DEF TypeOK
  <2>6. OpenSent'
    BY <1>1, <2>1, <2>3, <2>4 DEF OpenSent
  <2> QED
    BY <2>5, <2>6 DEF TypeInv
<1> QED
  BY <1>3, <1>4

\* An acknowledgement or a timeout deletes a commitment.
LEMMA DeleteType ==
  ASSUME TypeInv, NEW c \in Chains, NEW n \in Seqs,
         host' = [host EXCEPT ![c] = DeletePacketCommitment(@, n)], sent' = sent
  PROVE  host' \in [Chains -> Host] /\ OpenSent'
<1> DEFINE h == [host[c] EXCEPT !.commitments = @ \ {n}]
<1>1. host' = [host EXCEPT ![c] = h]
  BY DEF DeletePacketCommitment
<1>2. /\ h \in Host /\ h.nextSend = host[c].nextSend
      /\ h.commitments \subseteq host[c].commitments
  BY DEF TypeInv, TypeOK, Host
<1> HIDE DEF h
<1>3. host'[c] = h /\ \A d \in Chains : d # c => host'[d] = host[d]
  BY <1>1 DEF TypeInv, TypeOK
<1>4. host' \in [Chains -> Host]
  BY <1>1, <1>2 DEF TypeInv, TypeOK
<1>5. OpenSent'
  BY <1>2, <1>3 DEF TypeInv, OpenSent
<1> QED
  BY <1>4, <1>5

\* A refund pays what is in escrow, or panics.
LEMMA TimeoutType ==
  ASSUME TypeInv, NEW c \in Chains, NEW n \in Seqs, NEW g, TimeoutPacket(c, n, g)
  PROVE  TypeInv'
<1> DEFINE p == sent[c][n]
<1>1. TypeOK /\ OpenSent /\ n \in DOMAIN sent[c]
  BY DEF TypeInv, OpenSent, TimeoutPacket, TimedOut, HasPacketCommitment
<1>2. p.origin \in Chains /\ p.amount \in Nat
  BY <1>1, SentPacket
<1>3. CASE UnescrowFails(c, p.origin, p.amount)
  <2>1. Panic(c, "timeout")
    BY <1>3 DEF TimeoutPacket
  <2> QED
    BY <1>1, <2>1 DEF Panic, TypeInv, TypeOK, OpenSent
<1>4. CASE ~UnescrowFails(c, p.origin, p.amount)
  <2>1. /\ host' = [host EXCEPT ![c] = DeletePacketCommitment(@, n)]
        /\ bank' = [bank EXCEPT ![c] = ReceiveCoins(c, p.origin, p.amount)]
        /\ refunded' = [refunded EXCEPT ![c] = @ \cup {n}]
        /\ UNCHANGED <<height, sent, panicked>>
    BY <1>4 DEF TimeoutPacket
  <2>2. host' \in [Chains -> Host] /\ OpenSent'
    BY <2>1, DeleteType
  <2>3. bank' \in [Chains -> Bank]
    BY <1>1, <1>2, <1>4, <2>1, ReceiveCoinsType DEF TypeOK
  <2> HIDE DEF p
  <2> QED
    BY <1>1, <2>1, <2>2, <2>3 DEF TypeInv, TypeOK
<1> QED
  BY <1>3, <1>4

LEMMA InitTypeInv == Init => TypeInv
<1> SUFFICES ASSUME Init PROVE TypeInv
  OBVIOUS
<1>1. bank \in [Chains -> Bank]
  BY TransferAssumption DEF Init, Bank
<1>2. host \in [Chains -> Host]
  BY DEF Init, Host
<1>3. \A c \in Chains : \E k \in 0 .. MaxPackets : sent[c] \in [1 .. k -> Packet]
  <2>1. 0 \in 0 .. MaxPackets
    BY TransferAssumption
  <2>2. <<>> \in [1 .. 0 -> Packet]
    OBVIOUS
  <2> QED
    BY <2>1, <2>2 DEF Init
<1>4. TypeOK
  BY <1>1, <1>2, <1>3 DEF Init, TypeOK
<1>5. OpenSent
  BY DEF Init, OpenSent
<1> QED
  BY <1>4, <1>5 DEF TypeInv

LEMMA TypeStep == TypeInv /\ [Next]_vars => TypeInv'
<1> SUFFICES ASSUME TypeInv, [Next]_vars PROVE TypeInv'
  OBVIOUS
<1>1. ASSUME NEW c \in Chains, Commit(c) PROVE TypeInv'
  <2>1. height' \in [Chains -> Nat]
    BY <1>1 DEF Commit, TypeInv, TypeOK
  <2> QED
    BY <1>1, <2>1 DEF Commit, TypeInv, TypeOK, OpenSent
<1>2. ASSUME NEW c \in Chains, NEW p \in NewPackets(c), SendTransfer(c, p) PROVE TypeInv'
  BY <1>2, SendType
<1>3. ASSUME NEW c \in Chains, NEW p \in NewPackets(c), SendUnpaid(c, p) PROVE TypeInv'
  BY <1>3 DEF SendUnpaid, Panic, TypeInv, TypeOK, OpenSent
<1>4. ASSUME NEW c \in Chains, NEW n \in Seqs, RecvPacket(c, n) PROVE TypeInv'
  BY <1>4, RecvType
<1>5. ASSUME NEW c \in Chains, NEW n \in Seqs, AckPacket(c, n) PROVE TypeInv'
  <2>1. host' \in [Chains -> Host] /\ OpenSent'
    BY <1>5, DeleteType DEF AckPacket
  <2> QED
    BY <1>5, <2>1 DEF AckPacket, TypeInv, TypeOK
<1>6. ASSUME NEW c \in Chains, NEW n \in Seqs, NEW h \in 1 .. height[Other(c)],
             TimeoutPacket(c, n, h)
      PROVE TypeInv'
  BY <1>6, TimeoutType
<1>7. CASE UNCHANGED vars
  BY <1>7 DEF vars, TypeInv, TypeOK, OpenSent
<1> QED
  BY <1>1, <1>2, <1>3, <1>4, <1>5, <1>6, <1>7 DEF Next

\* No balance is ever negative, neither of an escrow account that is short of
\* coins nor of a user whose vouchers are burnt, and every field keeps its type,
\* whatever relayers lose, repeat, delay and reorder.
THEOREM TypeCorrect == Spec => []TypeOK
<1>1. TypeInv => TypeOK
  BY DEF TypeInv
<1> QED
  BY <1>1, InitTypeInv, TypeStep, PTL DEF Spec
-----------------------------------------------------------------------------
(* Relayers and the queries they go by.                                    *)

\* Every packet that was received was answered, in the same step.
Answered ==
  \A c \in Chains : \A n \in Seqs :
    host[c].acks[n] # "none" <=> host[c].receipts[n] # 0

\* A packet is refunded once: then it is no longer open.
RefundsClosed ==
  \A c \in Chains :
    refunded[c] \subseteq DOMAIN sent[c] /\ refunded[c] \cap host[c].commitments = {}

\* What a new packet changes.
LEMMA SendEffect ==
  ASSUME TypeInv, NEW c \in Chains, NEW p \in NewPackets(c), SendTransfer(c, p),
         NEW n, n = host[c].nextSend
  PROVE  /\ n \in Seqs /\ n \notin DOMAIN sent[c]
         /\ DOMAIN sent'[c] = DOMAIN sent[c] \cup {n} /\ sent'[c][n] = p
         /\ \A i \in DOMAIN sent[c] : sent'[c][i] = sent[c][i]
         /\ \A d \in Chains : d # c => sent'[d] = sent[d] /\ host'[d] = host[d]
         /\ host'[c].commitments = host[c].commitments \cup {n}
         /\ host'[c].acks = host[c].acks /\ host'[c].receipts = host[c].receipts
         /\ refunded' = refunded /\ panicked' = panicked
         /\ bank'[c] = SendCoins(c, p.origin, p.amount)
         /\ \A d \in Chains : d # c => bank'[d] = bank[d]
<1> DEFINE s == [i \in 1 .. n |-> IF i = n THEN p ELSE sent[c][i]]
           g == [host[c] EXCEPT !.nextSend = n + 1]
           h == [g EXCEPT !.commitments = @ \cup {n}]
<1>1. /\ n \in Seqs
      /\ host' = [host EXCEPT ![c] = h]
      /\ sent' = [sent EXCEPT ![c] = s]
      /\ bank' = [bank EXCEPT ![c] = SendCoins(c, p.origin, p.amount)]
      /\ refunded' = refunded /\ panicked' = panicked
  BY DEF SendTransfer, GetNextSequenceSend, StorePacketCommitment, StoreNextSequenceSend
<1>2. host \in [Chains -> Host] /\ DOMAIN sent = Chains /\ DOMAIN sent[c] = 1 .. n - 1
      /\ n \in Nat \ {0}
  BY DEF TypeInv, TypeOK, OpenSent
<1>3. host[c] \in Host
  BY <1>2
<1>4. /\ g \in Host /\ g.commitments = host[c].commitments
      /\ g.acks = host[c].acks /\ g.receipts = host[c].receipts
  <2>1. n + 1 \in Nat
    BY <1>2
  <2> QED
    BY <1>3, <2>1 DEF Host
<1> HIDE DEF g
<1>5. /\ h.commitments = host[c].commitments \cup {n}
      /\ h.acks = host[c].acks /\ h.receipts = host[c].receipts
  BY <1>4 DEF Host
<1>6. DOMAIN s = 1 .. n /\ s[n] = p /\ \A i \in 1 .. n - 1 : s[i] = sent[c][i]
  BY <1>2
<1>7. n \notin 1 .. n - 1 /\ 1 .. n = (1 .. n - 1) \cup {n}
  BY <1>2
<1> HIDE DEF s, h
<1>8. host'[c] = h /\ sent'[c] = s
      /\ \A d \in Chains : d # c => sent'[d] = sent[d] /\ host'[d] = host[d]
  BY <1>1, <1>2
<1>9. /\ bank'[c] = SendCoins(c, p.origin, p.amount)
      /\ \A d \in Chains : d # c => bank'[d] = bank[d]
  BY <1>1 DEF TypeInv, TypeOK
<1> QED
  BY <1>1, <1>2, <1>5, <1>6, <1>7, <1>8, <1>9

\* The packet asks for more than is in escrow.
RecvFails(c, n) ==
  sent[c][n].parses /\ UnescrowFails(Other(c), sent[c][n].origin, sent[c][n].amount)

\* What a packet changes that is received.
Received(c, n, d) ==
  /\ n \in DOMAIN sent[c] /\ host[d].receipts[n] = 0
  /\ host'[d].acks = [host[d].acks EXCEPT ![n] = IF sent[c][n].parses THEN "ok" ELSE "error"]
  /\ host'[d].receipts = [host[d].receipts EXCEPT ![n] = height[d] + 1]
  /\ host'[d].commitments = host[d].commitments
  /\ \A e \in Chains : e # d => host'[e] = host[e]
  /\ sent' = sent /\ refunded' = refunded /\ panicked' = panicked
  /\ sent[c][n].parses => bank'[d] = ReceiveCoins(d, sent[c][n].origin, sent[c][n].amount)
  /\ ~sent[c][n].parses => bank' = bank
  /\ \A e \in Chains : e # d => bank'[e] = bank[e]

LEMMA RecvEffect ==
  ASSUME TypeInv, NEW c \in Chains, NEW n \in Seqs, RecvPacket(c, n), ~RecvFails(c, n)
  PROVE  Received(c, n, Other(c))
<1> DEFINE d == Other(c)
<1> DEFINE p == sent[c][n]
           a == IF p.parses THEN "ok" ELSE "error"
           g == [host[d] EXCEPT !.receipts = [@ EXCEPT ![n] = height[d] + 1]]
           h == [g EXCEPT !.acks = [@ EXCEPT ![n] = a]]
<1>1. /\ n \in DOMAIN sent[c] /\ host[d].receipts[n] = 0
      /\ host' = [host EXCEPT ![d] = StorePacketAcknowledgement(
                    StorePacketReceipt(host[d], n, height[d] + 1), n, a)]
      /\ sent' = sent /\ refunded' = refunded /\ panicked' = panicked
      /\ bank' = [bank EXCEPT ![d] =
                    IF p.parses THEN ReceiveCoins(d, p.origin, p.amount) ELSE bank[d]]
  BY DEF RecvPacket, Receivable, HasPacketReceipt, RecvFails
<1>2. StorePacketAcknowledgement(StorePacketReceipt(host[d], n, height[d] + 1), n, a) = h
  BY DEF StorePacketAcknowledgement, StorePacketReceipt
<1>3. d \in Chains /\ host \in [Chains -> Host] /\ height[d] + 1 \in Nat
  BY OtherFacts DEF TypeInv, TypeOK
<1>4. host[d] \in Host
  BY <1>3
<1>5. /\ g \in Host /\ g.commitments = host[d].commitments /\ g.acks = host[d].acks
      /\ g.receipts = [host[d].receipts EXCEPT ![n] = height[d] + 1]
  BY <1>3, <1>4 DEF Host
<1> HIDE DEF g, a
<1>6. /\ h.commitments = g.commitments /\ h.receipts = g.receipts
      /\ h.acks = [g.acks EXCEPT ![n] = a]
  BY <1>5 DEF Host
<1> HIDE DEF h
<1>7. host'[d] = h /\ \A e \in Chains : e # d => host'[e] = host[e]
  BY <1>1, <1>2, <1>3
<1>8. /\ p.parses => bank'[d] = ReceiveCoins(d, p.origin, p.amount)
      /\ ~p.parses => bank' = bank
      /\ \A e \in Chains : e # d => bank'[e] = bank[e]
  <2>1. bank \in [Chains -> Bank] /\ d \in Chains
    BY <1>3 DEF TypeInv, TypeOK
  <2> QED
    BY <1>1, <2>1
<1> QED
  BY <1>1, <1>5, <1>6, <1>7, <1>8 DEF a, Received

\* What deleting a commitment changes.
LEMMA DeleteEffect ==
  ASSUME TypeInv, NEW c \in Chains, NEW n \in Seqs,
         host' = [host EXCEPT ![c] = DeletePacketCommitment(@, n)]
  PROVE  /\ host'[c].commitments = host[c].commitments \ {n}
         /\ \A d \in Chains : /\ d # c => host'[d] = host[d]
                              /\ host'[d].acks = host[d].acks
                              /\ host'[d].receipts = host[d].receipts
<1> DEFINE h == [host[c] EXCEPT !.commitments = @ \ {n}]
<1>1. host' = [host EXCEPT ![c] = h] /\ host \in [Chains -> Host]
  BY DEF DeletePacketCommitment, TypeInv, TypeOK
<1>2. /\ h.commitments = host[c].commitments \ {n}
      /\ h.acks = host[c].acks /\ h.receipts = host[c].receipts
  BY <1>1 DEF Host
<1> HIDE DEF h
<1>3. host'[c] = h /\ \A d \in Chains : d # c => host'[d] = host[d]
  BY <1>1
<1> QED
  BY <1>2, <1>3

HostInv == TypeInv /\ Answered /\ RefundsClosed

LEMMA HostStep ==
  ASSUME HostInv, [Next]_vars
  PROVE  HostInv'
<1> USE DEF HostInv
<1>0. TypeInv'
  BY TypeStep
<1>1. ASSUME NEW c \in Chains, Commit(c) PROVE Answered' /\ RefundsClosed'
  BY <1>1 DEF Commit, Answered, RefundsClosed
<1>2. ASSUME NEW c \in Chains, NEW p \in NewPackets(c), SendTransfer(c, p)
      PROVE  Answered' /\ RefundsClosed'
  <2> DEFINE n == host[c].nextSend
  <2>1. /\ n \in Seqs /\ n \notin DOMAIN sent[c]
        /\ DOMAIN sent'[c] = DOMAIN sent[c] \cup {n}
        /\ \A d \in Chains : d # c => sent'[d] = sent[d] /\ host'[d] = host[d]
        /\ host'[c].commitments = host[c].commitments \cup {n}
        /\ host'[c].acks = host[c].acks /\ host'[c].receipts = host[c].receipts
        /\ refunded' = refunded
    BY <1>2, SendEffect
  <2> HIDE DEF n
  <2>2. Answered'
    BY <2>1 DEF Answered
  <2>3. RefundsClosed'
    BY <2>1 DEF RefundsClosed
  <2> QED
    BY <2>2, <2>3
<1>3. ASSUME NEW c \in Chains, NEW what, Panic(c, what) PROVE Answered' /\ RefundsClosed'
  BY <1>3 DEF Panic, Answered, RefundsClosed
<1>4. ASSUME NEW c \in Chains, NEW n \in Seqs, RecvPacket(c, n)
      PROVE  Answered' /\ RefundsClosed'
  <2> DEFINE d == Other(c)
  <2>1. CASE RecvFails(c, n)
    <3>1. Panic(d, "recv")
      BY <1>4, <2>1 DEF RecvPacket, RecvFails
    <3> QED
      BY <1>3, <3>1, OtherFacts
  <2>2. CASE ~RecvFails(c, n)
    <3> DEFINE a == IF sent[c][n].parses THEN "ok" ELSE "error"
    <3>1. /\ host'[d].acks = [host[d].acks EXCEPT ![n] = a]
          /\ host'[d].receipts = [host[d].receipts EXCEPT ![n] = height[d] + 1]
          /\ host'[d].commitments = host[d].commitments
          /\ \A e \in Chains : e # d => host'[e] = host[e]
          /\ sent' = sent /\ refunded' = refunded
      BY <1>4, <2>2, RecvEffect DEF Received
    <3>2. /\ d \in Chains /\ height[d] \in Nat
          /\ host[d].acks \in [Seqs -> {"none", "ok", "error"}]
          /\ host[d].receipts \in [Seqs -> Nat]
      BY OtherFacts DEF TypeInv, TypeOK, Host
    <3>3. a # "none" /\ height[d] + 1 # 0
      BY <3>2
    <3> HIDE DEF d, a
    <3>4. Answered'
      <4> SUFFICES ASSUME NEW e \in Chains, NEW m \in Seqs
                   PROVE  host'[e].acks[m] # "none" <=> host'[e].receipts[m] # 0
        BY DEF Answered
      <4>1. CASE e = d /\ m = n
        BY <4>1, <3>1, <3>2, <3>3
      <4>2. CASE e = d /\ m # n
        BY <4>2, <3>1, <3>2 DEF Answered
      <4>3. CASE e # d
        BY <4>3, <3>1 DEF Answered
      <4> QED
        BY <4>1, <4>2, <4>3
    <3>5. RefundsClosed'
      BY <3>1 DEF RefundsClosed
    <3> QED
      BY <3>4, <3>5
  <2> QED
    BY <2>1, <2>2
<1>5. ASSUME NEW c \in Chains, NEW n \in Seqs, AckPacket(c, n)
      PROVE  Answered' /\ RefundsClosed'
  <2>1. /\ host'[c].commitments = host[c].commitments \ {n}
        /\ \A d \in Chains : /\ d # c => host'[d] = host[d]
                             /\ host'[d].acks = host[d].acks
                             /\ host'[d].receipts = host[d].receipts
        /\ sent' = sent /\ refunded' = refunded
    BY <1>5, DeleteEffect DEF AckPacket
  <2> QED
    BY <2>1 DEF Answered, RefundsClosed
<1>6. ASSUME NEW c \in Chains, NEW n \in Seqs, NEW h, TimeoutPacket(c, n, h)
      PROVE  Answered' /\ RefundsClosed'
  <2>1. CASE UnescrowFails(c, sent[c][n].origin, sent[c][n].amount)
    <3>1. Panic(c, "timeout")
      BY <1>6, <2>1 DEF TimeoutPacket
    <3> QED
      BY <1>3, <3>1
  <2>2. CASE ~UnescrowFails(c, sent[c][n].origin, sent[c][n].amount)
    <3>1. /\ host' = [host EXCEPT ![c] = DeletePacketCommitment(@, n)]
          /\ sent' = sent /\ refunded' = [refunded EXCEPT ![c] = @ \cup {n}]
          /\ n \in host[c].commitments
      BY <1>6, <2>2 DEF TimeoutPacket, TimedOut, HasPacketCommitment
    <3>2. /\ host'[c].commitments = host[c].commitments \ {n}
          /\ \A d \in Chains : /\ d # c => host'[d] = host[d]
                               /\ host'[d].acks = host[d].acks
                               /\ host'[d].receipts = host[d].receipts
      BY <3>1, DeleteEffect
    <3>3. n \in DOMAIN sent[c] /\ refunded \in [Chains -> SUBSET Seqs]
      BY <3>1 DEF TypeInv, OpenSent, TypeOK
    <3>4. Answered'
      BY <3>2 DEF Answered
    <3>5. RefundsClosed'
      BY <3>1, <3>2, <3>3 DEF RefundsClosed
    <3> QED
      BY <3>4, <3>5
  <2> QED
    BY <2>1, <2>2
<1>7. CASE UNCHANGED vars
  BY <1>7, <1>0 DEF vars, Answered, RefundsClosed
<1>8. ASSUME NEW c \in Chains, NEW p, SendUnpaid(c, p) PROVE Answered' /\ RefundsClosed'
  BY <1>8, <1>3 DEF SendUnpaid
<1> QED
  BY <1>0, <1>1, <1>2, <1>4, <1>5, <1>6, <1>7, <1>8 DEF Next

LEMMA InitHostInv == Init => HostInv
<1> SUFFICES ASSUME Init PROVE HostInv
  OBVIOUS
<1>1. Answered
  BY DEF Init, Answered
<1>2. RefundsClosed
  BY DEF Init, RefundsClosed
<1> QED
  BY <1>1, <1>2, InitTypeInv DEF HostInv

\* A relayer that goes by the queries of the IBC store always finds a packet
\* that is not settled at its source either unreceived or acknowledged at its
\* destination, for any values of the constants and whatever else relayers do.
THEOREM RelayersFindWork == Spec => []RelayerHasWork
<1>1. HostInv => RelayerHasWork
  <2> SUFFICES ASSUME HostInv, NEW c \in Chains, NEW n \in host[c].commitments
               PROVE  \/ n \in UnreceivedPackets(Other(c), host[c].commitments)
                      \/ n \in PacketAcknowledgements(Other(c), {})
    BY DEF RelayerHasWork, PacketCommitments, UnreceivedAcks, HasPacketCommitment
  <2>1. n \in Seqs /\ Other(c) \in Chains
    BY OtherFacts DEF HostInv, TypeInv, TypeOK, Host
  <2>2. host[Other(c)].receipts[n] # 0 => host[Other(c)].acks[n] # "none"
    BY <2>1 DEF HostInv, Answered
  <2> QED
    BY <2>1, <2>2 DEF UnreceivedPackets, PacketAcknowledgements, HasPacketReceipt
<1> QED
  BY <1>1, InitHostInv, HostStep, PTL DEF Spec
-----------------------------------------------------------------------------
(* What is in escrow.  On a chain, the coins of origin o are held by its   *)
(* escrow account if they are its own; vouchers its user has are owed.     *)
(* Over the two chains, what is held and owed is what is under way, less   *)
(* what has been paid twice.                                               *)

Held(x, o) == IF o = x THEN bank[x].escrow[o] ELSE - bank[x].user[o]

Due(s, o) == Underway(s, o) - Overpaid(s, o)

Balanced ==
  \A o \in Chains :
    Held(o, o) + Held(Other(o), o) = Due(o, o) + Due(Other(o), o)

\* The packets of a chain are finitely many.
LEMMA SentFinite ==
  ASSUME TypeOK, NEW s \in Chains
  PROVE  IsFiniteSet(DOMAIN sent[s])
<1>1. PICK k \in 0 .. MaxPackets : sent[s] \in [1 .. k -> Packet]
  BY DEF TypeOK
<1>2. 1 \in Int /\ k \in Int
  BY TransferAssumption
<1> QED
  BY <1>1, <1>2, FS_Interval

LEMMA SentInSeqs ==
  ASSUME TypeOK, NEW s \in Chains
  PROVE  DOMAIN sent[s] \subseteq Seqs
<1>1. PICK k \in 0 .. MaxPackets : sent[s] \in [1 .. k -> Packet]
  BY DEF TypeOK
<1> QED
  BY <1>1, TransferAssumption DEF Seqs

\* Their coins are counted in naturals; none is more than all together.
LEMMA CoinsNat ==
  ASSUME TypeOK, NEW s \in Chains, NEW o, NEW P \in SUBSET DOMAIN sent[s]
  PROVE  /\ IsFiniteSet({n \in P : sent[s][n].origin = o})
         /\ \A n \in P : [i \in DOMAIN sent[s] |-> sent[s][i].amount][n] \in Nat
         /\ Coins(s, P, o) \in Nat
         /\ \A n \in P : sent[s][n].origin = o => sent[s][n].amount <= Coins(s, P, o)
<1> DEFINE f == [i \in DOMAIN sent[s] |-> sent[s][i].amount]
           S == {n \in P : sent[s][n].origin = o}
<1>1. IsFiniteSet(DOMAIN sent[s])
  BY SentFinite
<1>2. S \subseteq DOMAIN sent[s]
  OBVIOUS
<1>3. IsFiniteSet(S)
  BY <1>1, <1>2, FS_Subset
<1>4. \A n \in P : f[n] = sent[s][n].amount /\ f[n] \in Nat
  BY SentPacket
<1>5. Coins(s, P, o) = SumFunctionOnSet(f, S)
  BY DEF Coins
<1>6. \A n \in P : sent[s][n].origin = o <=> n \in S
  OBVIOUS
<1>7. S \subseteq P
  OBVIOUS
<1> HIDE DEF f, S
<1>8. SumFunctionOnSet(f, S) \in Nat /\ \A n \in S : f[n] <= SumFunctionOnSet(f, S)
  BY <1>3, <1>4, <1>7, SumNat
<1> QED
  BY <1>3, <1>4, <1>5, <1>6, <1>8 DEF f, S

\* What a packet contributes to the coins of a set of packets.
LEMMA CoinsRemove ==
  ASSUME TypeOK, NEW s \in Chains, NEW o, NEW P \in SUBSET DOMAIN sent[s], NEW n \in P
  PROVE  Coins(s, P \ {n}, o) = IF o = sent[s][n].origin
                                THEN Coins(s, P, o) - sent[s][n].amount ELSE Coins(s, P, o)
<1> DEFINE f == [i \in DOMAIN sent[s] |-> sent[s][i].amount]
           S == {i \in P : sent[s][i].origin = o}
           T == {i \in P \ {n} : sent[s][i].origin = o}
<1>1. Coins(s, P, o) = SumFunctionOnSet(f, S) /\ Coins(s, P \ {n}, o) = SumFunctionOnSet(f, T)
  BY DEF Coins
<1>2. IsFiniteSet(S) /\ \A i \in S : f[i] \in Int
  <2>1. IsFiniteSet(S) /\ \A i \in P : f[i] \in Nat
    BY CoinsNat
  <2>2. S \subseteq P
    OBVIOUS
  <2> HIDE DEF f, S
  <2> QED
    BY <2>1, <2>2
<1>3. P \ {n} \in SUBSET DOMAIN sent[s]
  OBVIOUS
<1>4. Coins(s, P, o) \in Nat /\ Coins(s, P \ {n}, o) \in Nat
  BY <1>3, CoinsNat
<1>5. CASE o = sent[s][n].origin
  <2>1. n \in S /\ T = S \ {n} /\ f[n] = sent[s][n].amount
    BY <1>5
  <2>2. SumFunctionOnSet(f, S) = f[n] + SumFunctionOnSet(f, S \ {n})
    <3> HIDE DEF f, S, T
    <3> QED
      BY <1>2, <2>1, SumRemove
  <2>3. f[n] \in Int
    BY <1>2, <2>1
  <2> HIDE DEF f, S, T
  <2> QED
    BY <1>1, <1>4, <1>5, <2>1, <2>2, <2>3
<1>6. CASE o # sent[s][n].origin
  <2>1. T = S
    BY <1>6
  <2> QED
    BY <1>1, <1>6, <2>1
<1> QED
  BY <1>5, <1>6

LEMMA CoinsAdd ==
  ASSUME TypeOK, NEW s \in Chains, NEW o, NEW P \in SUBSET DOMAIN sent[s],
         NEW n \in DOMAIN sent[s], n \notin P
  PROVE  Coins(s, P \cup {n}, o) = IF o = sent[s][n].origin
                                  THEN Coins(s, P, o) + sent[s][n].amount ELSE Coins(s, P, o)
<1> DEFINE Q == P \cup {n}
<1>1. Q \in SUBSET DOMAIN sent[s] /\ n \in Q /\ Q \ {n} = P
  OBVIOUS
<1>2. Coins(s, P, o) \in Nat /\ Coins(s, Q, o) \in Nat /\ sent[s][n].amount \in Nat
  BY <1>1, CoinsNat, SentPacket
<1> HIDE DEF Q
<1>3. Coins(s, Q \ {n}, o) = IF o = sent[s][n].origin
                             THEN Coins(s, Q, o) - sent[s][n].amount ELSE Coins(s, Q, o)
  BY <1>1, CoinsRemove
<1>4. Coins(s, Q, o) = IF o = sent[s][n].origin
                       THEN Coins(s, P, o) + sent[s][n].amount ELSE Coins(s, P, o)
  BY <1>1, <1>2, <1>3
<1> QED
  BY <1>4 DEF Q

\* The packets that are under way and those that were paid twice are sent ones.
LEMMA DueFacts ==
  ASSUME TypeOK, NEW s \in Chains, NEW o
  PROVE  /\ Unsettled(s) \subseteq DOMAIN sent[s] /\ PaidTwice(s) \subseteq DOMAIN sent[s]
         /\ Underway(s, o) \in Nat /\ Overpaid(s, o) \in Nat /\ Due(s, o) \in Int
<1>1. Unsettled(s) \subseteq DOMAIN sent[s] /\ PaidTwice(s) \subseteq DOMAIN sent[s]
  BY DEF Unsettled, PaidTwice
<1>2. Underway(s, o) \in Nat /\ Overpaid(s, o) \in Nat
  BY <1>1, CoinsNat DEF Underway, Overpaid
<1> QED
  BY <1>1, <1>2 DEF Due

LEMMA HeldType ==
  ASSUME TypeOK
  PROVE  \A x, o \in Chains : Held(x, o) \in Int
<1> SUFFICES ASSUME NEW x \in Chains, NEW o \in Chains PROVE Held(x, o) \in Int
  OBVIOUS
<1>1. bank[x] \in Bank
  BY DEF TypeOK
<1>2. bank[x].user[o] \in Nat /\ bank[x].escrow[o] \in Nat
  BY <1>1 DEF Bank
<1> QED
  BY <1>2 DEF Held

LEMMA BalancedIsBacked ==
  ASSUME TypeOK
  PROVE  Balanced <=> EscrowBacksVouchers
<1>1. ASSUME NEW c \in Chains
      PROVE  /\ Held(c, c) = bank[c].escrow[c] /\ Held(Other(c), c) = - bank[Other(c)].user[c]
             /\ bank[c].escrow[c] \in Nat /\ bank[Other(c)].user[c] \in Nat
  BY OtherFacts DEF Held, TypeOK, Bank
<1>2. ASSUME NEW c \in Chains, NEW x \in Chains
      PROVE  /\ Underway(x, c) \in Int /\ Overpaid(x, c) \in Int
             /\ Due(x, c) = Underway(x, c) - Overpaid(x, c)
  <2>1. Underway(x, c) \in Nat /\ Overpaid(x, c) \in Nat
    BY DueFacts
  <2> QED
    BY <2>1 DEF Due
<1>3. ASSUME NEW c \in Chains
      PROVE  (Held(c, c) + Held(Other(c), c) = Due(c, c) + Due(Other(c), c))
             <=> (bank[c].escrow[c] + Overpaid(c, c) + Overpaid(Other(c), c)
                    = bank[Other(c)].user[c] + Underway(c, c) + Underway(Other(c), c))
  <2>1. Other(c) \in Chains
    BY OtherFacts
  <2> QED
    BY <1>1, <1>2, <2>1
<1> QED
  BY <1>3 DEF Balanced, EscrowBacksVouchers

\* What is moved between a user and the escrow account, minted or burnt on one
\* chain, in one denomination.
LEMMA HeldBySend ==
  ASSUME TypeOK, NEW c \in Chains, NEW o \in Chains, NEW a \in Nat,
         bank'[c] = SendCoins(c, o, a), \A x \in Chains : x # c => bank'[x] = bank[x]
  PROVE  \A x, q \in Chains :
           Held(x, q)' = IF x = c /\ q = o THEN Held(x, q) + a ELSE Held(x, q)
<1>1. bank[c] \in Bank /\ bank'[c] = SendCoins(c, o, a)
      /\ \A x \in Chains : x # c => bank'[x] = bank[x]
  BY DEF TypeOK
<1>2. \A q \in Chains : bank[c].user[q] \in Nat /\ bank[c].escrow[q] \in Nat
  BY <1>1 DEF Bank
<1>3. CASE o = c
  <2>1. bank'[c] = [user |-> [bank[c].user EXCEPT ![o] = @ - a],
                    escrow |-> [bank[c].escrow EXCEPT ![o] = @ + a]]
    BY <1>1, <1>3 DEF SendCoins, EscrowCoins
  <2>2. /\ bank'[c].escrow[o] = bank[c].escrow[o] + a
        /\ \A q \in Chains : q # o => bank'[c].user[q] = bank[c].user[q]
    BY <1>1, <2>1 DEF Bank
  <2> QED
    BY <1>1, <1>2, <1>3, <2>2 DEF Held
<1>4. CASE o # c
  <2>1. bank'[c] = [bank[c] EXCEPT !.user[o] = @ - a]
    BY <1>1, <1>4 DEF SendCoins, BurnCoins
  <2>2. /\ bank'[c].user[o] = bank[c].user[o] - a
        /\ \A q \in Chains : q # o => bank'[c].user[q] = bank[c].user[q]
        /\ bank'[c].escrow = bank[c].escrow
    BY <1>1, <2>1 DEF Bank
  <2> QED
    BY <1>1, <1>2, <1>4, <2>2 DEF Held
<1> QED
  BY <1>3, <1>4

LEMMA HeldByReceive ==
  ASSUME TypeOK, NEW c \in Chains, NEW o \in Chains, NEW a \in Nat,
         bank'[c] = ReceiveCoins(c, o, a), \A x \in Chains : x # c => bank'[x] = bank[x]
  PROVE  \A x, q \in Chains :
           Held(x, q)' = IF x = c /\ q = o THEN Held(x, q) - a ELSE Held(x, q)
<1>1. bank[c] \in Bank /\ bank'[c] = ReceiveCoins(c, o, a)
      /\ \A x \in Chains : x # c => bank'[x] = bank[x]
  BY DEF TypeOK
<1>2. \A q \in Chains : bank[c].user[q] \in Nat /\ bank[c].escrow[q] \in Nat
  BY <1>1 DEF Bank
<1>3. CASE o = c
  <2>1. bank'[c] = [user |-> [bank[c].user EXCEPT ![o] = @ + a],
                    escrow |-> [bank[c].escrow EXCEPT ![o] = @ - a]]
    BY <1>1, <1>3 DEF ReceiveCoins, UnescrowCoins
  <2>2. /\ bank'[c].escrow[o] = bank[c].escrow[o] - a
        /\ \A q \in Chains : q # o => bank'[c].user[q] = bank[c].user[q]
    BY <1>1, <2>1 DEF Bank
  <2> QED
    BY <1>1, <1>2, <1>3, <2>2 DEF Held
<1>4. CASE o # c
  <2>1. bank'[c] = [bank[c] EXCEPT !.user[o] = @ + a]
    BY <1>1, <1>4 DEF ReceiveCoins, MintCoins
  <2>2. /\ bank'[c].user[o] = bank[c].user[o] + a
        /\ \A q \in Chains : q # o => bank'[c].user[q] = bank[c].user[q]
        /\ bank'[c].escrow = bank[c].escrow
    BY <1>1, <2>1 DEF Bank
  <2> QED
    BY <1>1, <1>2, <1>4, <2>2 DEF Held
<1> QED
  BY <1>3, <1>4

-----------------------------------------------------------------------------
\* A packet that has reached its receiver or come back to its sender is no
\* longer under way: what is due becomes less by its coins.
LEMMA DueSettled ==
  ASSUME TypeOK, NEW c \in Chains, NEW n \in Unsettled(c), sent' = sent,
         Unsettled(c)' = Unsettled(c) \ {n}, Unsettled(Other(c))' = Unsettled(Other(c)),
         \A x \in Chains : PaidTwice(x)' = PaidTwice(x)
  PROVE  \A x, q \in Chains :
           Due(x, q)' = IF x = c /\ q = sent[c][n].origin
                        THEN Due(x, q) - sent[c][n].amount ELSE Due(x, q)
<1> SUFFICES ASSUME NEW x \in Chains, NEW q \in Chains
             PROVE  Due(x, q)' = IF x = c /\ q = sent[c][n].origin
                                 THEN Due(x, q) - sent[c][n].amount ELSE Due(x, q)
  OBVIOUS
<1> DEFINE U == Unsettled(x)
           V == Unsettled(x)'
<1>1. Underway(x, q)' = Coins(x, V, q) /\ Underway(x, q) = Coins(x, U, q)
      /\ Overpaid(x, q)' = Overpaid(x, q)
  BY DEF Underway, Overpaid, Coins
<1>2. U \subseteq DOMAIN sent[x] /\ Underway(x, q) \in Nat /\ Overpaid(x, q) \in Nat
  BY DueFacts
<1>3. n \in DOMAIN sent[c] /\ sent[c][n].amount \in Nat
  BY SentPacket DEF Unsettled
<1>4. x = c \/ x = Other(c)
  BY OtherFacts
<1>5. CASE x = c
  <2>1. V = U \ {n} /\ n \in U
    BY <1>5
  <2> HIDE DEF U, V
  <2>2. Coins(x, V, q) = IF q = sent[x][n].origin
                         THEN Coins(x, U, q) - sent[x][n].amount ELSE Coins(x, U, q)
    BY <1>2, <2>1, CoinsRemove
  <2>3. Underway(x, q)' = IF q = sent[c][n].origin
                          THEN Underway(x, q) - sent[c][n].amount ELSE Underway(x, q)
    BY <1>1, <1>5, <2>2
  <2> QED
    BY <1>1, <1>2, <1>3, <1>5, <2>3 DEF Due
<1>6. CASE x # c
  <2>1. V = U
    BY <1>4, <1>6
  <2>2. Underway(x, q)' = Underway(x, q)
    BY <1>1, <2>1
  <2> QED
    BY <1>1, <1>6, <2>2 DEF Due
<1> QED
  BY <1>5, <1>6

\* A packet that was received and is now refunded, too, counts as paid twice:
\* what is due becomes less by its coins a second time.
LEMMA DuePaidTwice ==
  ASSUME TypeOK, NEW c \in Chains, NEW n \in DOMAIN sent[c], n \notin PaidTwice(c),
         sent' = sent, PaidTwice(c)' = PaidTwice(c) \cup {n},
         PaidTwice(Other(c))' = PaidTwice(Other(c)),
         \A x \in Chains : Unsettled(x)' = Unsettled(x)
  PROVE  \A x, q \in Chains :
           Due(x, q)' = IF x = c /\ q = sent[c][n].origin
                        THEN Due(x, q) - sent[c][n].amount ELSE Due(x, q)
<1> SUFFICES ASSUME NEW x \in Chains, NEW q \in Chains
             PROVE  Due(x, q)' = IF x = c /\ q = sent[c][n].origin
                                 THEN Due(x, q) - sent[c][n].amount ELSE Due(x, q)
  OBVIOUS
<1> DEFINE U == PaidTwice(x)
           V == PaidTwice(x)'
<1>1. Overpaid(x, q)' = Coins(x, V, q) /\ Overpaid(x, q) = Coins(x, U, q)
      /\ Underway(x, q)' = Underway(x, q)
  BY DEF Underway, Overpaid, Coins
<1>2. U \subseteq DOMAIN sent[x] /\ Underway(x, q) \in Nat /\ Overpaid(x, q) \in Nat
  BY DueFacts
<1>3. sent[c][n].amount \in Nat
  BY SentPacket
<1>4. x = c \/ x = Other(c)
  BY OtherFacts
<1>5. CASE x = c
  <2>1. V = U \cup {n} /\ n \notin U
    BY <1>5
  <2> HIDE DEF U, V
  <2>2. Coins(x, V, q) = IF q = sent[x][n].origin
                         THEN Coins(x, U, q) + sent[x][n].amount ELSE Coins(x, U, q)
    BY <1>2, <1>5, <2>1, CoinsAdd
  <2>3. Overpaid(x, q)' = IF q = sent[c][n].origin
                          THEN Overpaid(x, q) + sent[c][n].amount ELSE Overpaid(x, q)
    BY <1>1, <1>5, <2>2
  <2> QED
    BY <1>1, <1>2, <1>3, <1>5, <2>3 DEF Due
<1>6. CASE x # c
  <2>1. V = U
    BY <1>4, <1>6
  <2>2. Overpaid(x, q)' = Overpaid(x, q)
    BY <1>1, <2>1
  <2> QED
    BY <1>1, <1>6, <2>2 DEF Due
<1> QED
  BY <1>5, <1>6

\* A new packet leaves the coins of those sent before what they were.
LEMMA CoinsOnSend ==
  ASSUME TypeOK, NEW c \in Chains, DOMAIN sent[c] \subseteq DOMAIN sent'[c],
         \A i \in DOMAIN sent[c] : sent'[c][i] = sent[c][i],
         NEW P \in SUBSET DOMAIN sent[c], NEW q
  PROVE  SumFunctionOnSet([i \in DOMAIN sent'[c] |-> sent'[c][i].amount],
                          {i \in P : sent'[c][i].origin = q}) = Coins(c, P, q)
<1> DEFINE f == [i \in DOMAIN sent[c] |-> sent[c][i].amount]
           g == [i \in DOMAIN sent'[c] |-> sent'[c][i].amount]
           S == {i \in P : sent[c][i].origin = q}
<1>1. Coins(c, P, q) = SumFunctionOnSet(f, S)
  BY DEF Coins
<1>2. IsFiniteSet(S) /\ \A i \in S : f[i] \in Int /\ f[i] = g[i]
  <2>1. IsFiniteSet(S) /\ \A i \in P : f[i] \in Nat
    BY CoinsNat
  <2>2. S \subseteq P /\ \A i \in P : f[i] = g[i]
    OBVIOUS
  <2> HIDE DEF f, g, S
  <2> QED
    BY <2>1, <2>2
<1>3. {i \in P : sent'[c][i].origin = q} = S
  OBVIOUS
<1>4. SumFunctionOnSet(g, S) = SumFunctionOnSet(f, S)
  <2> HIDE DEF f, g, S
  <2> QED
    BY <1>2, SumSame
<1> QED
  BY <1>1, <1>3, <1>4

\* What a new packet adds to the coins under way.
LEMMA DueSent ==
  ASSUME TypeOK, TypeOK', NEW c \in Chains, NEW n, NEW p,
         n \notin DOMAIN sent[c], DOMAIN sent'[c] = DOMAIN sent[c] \cup {n}, sent'[c][n] = p,
         \A i \in DOMAIN sent[c] : sent'[c][i] = sent[c][i],
         sent'[Other(c)] = sent[Other(c)],
         Unsettled(c)' = Unsettled(c) \cup {n}, Unsettled(Other(c))' = Unsettled(Other(c)),
         \A x \in Chains : PaidTwice(x)' = PaidTwice(x)
  PROVE  \A x, q \in Chains :
           Due(x, q)' = IF x = c /\ q = p.origin THEN Due(x, q) + p.amount ELSE Due(x, q)
<1> SUFFICES ASSUME NEW x \in Chains, NEW q \in Chains
             PROVE  Due(x, q)' = IF x = c /\ q = p.origin
                                 THEN Due(x, q) + p.amount ELSE Due(x, q)
  OBVIOUS
<1>1. Underway(x, q) \in Nat /\ Overpaid(x, q) \in Nat
  BY DueFacts
<1>2. p.amount \in Nat
  BY SentPacketNext
<1>3. x = c \/ x = Other(c)
  BY OtherFacts
<1>4. CASE x = c
  <2> DEFINE g == [i \in DOMAIN sent'[c] |-> sent'[c][i].amount]
             U == Unsettled(c)
             W == PaidTwice(c)
             S == {i \in U : sent'[c][i].origin = q}
             T == {i \in U \cup {n} : sent'[c][i].origin = q}
  <2>1. U \in SUBSET DOMAIN sent[c] /\ W \in SUBSET DOMAIN sent[c]
    BY DueFacts
  <2>2. /\ Underway(c, q) = Coins(c, U, q) /\ Overpaid(c, q) = Coins(c, W, q)
        /\ Underway(c, q)' = SumFunctionOnSet(g, T)
        /\ Overpaid(c, q)' = SumFunctionOnSet(g, {i \in W : sent'[c][i].origin = q})
    BY DEF Underway, Overpaid, Coins
  <2>3. SumFunctionOnSet(g, S) = Coins(c, U, q)
    <3> HIDE DEF U, W
    <3> QED
      BY <2>1, CoinsOnSend
  <2>4. SumFunctionOnSet(g, {i \in W : sent'[c][i].origin = q}) = Coins(c, W, q)
    <3> HIDE DEF U, W
    <3> QED
      BY <2>1, CoinsOnSend
  <2>5. IsFiniteSet(S) /\ n \notin S /\ g[n] = p.amount
        /\ \A i \in S \cup {n} : g[i] \in Int
    <3>1. IsFiniteSet(DOMAIN sent[c])
      BY SentFinite
    <3>2. \A i \in DOMAIN sent'[c] : g[i] \in Nat
      BY SentPacketNext
    <3>3. S \subseteq DOMAIN sent[c] /\ n \notin S /\ g[n] = p.amount
          /\ S \cup {n} \subseteq DOMAIN sent'[c]
      BY <2>1
    <3> HIDE DEF g, S
    <3>4. IsFiniteSet(S)
      BY <3>1, <3>3, FS_Subset
    <3> QED
      BY <3>2, <3>3, <3>4
  <2>6. CASE q = p.origin
    <3>1. T = S \cup {n}
      BY <2>6
    <3> HIDE DEF g, S, T, U, W
    <3>2. SumFunctionOnSet(g, S \cup {n}) = g[n] + SumFunctionOnSet(g, S)
      BY <2>5, SumAdd
    <3>3. Underway(c, q)' = Underway(c, q) + p.amount
      BY <1>1, <1>2, <1>4, <2>2, <2>3, <2>5, <3>1, <3>2
    <3>4. Overpaid(c, q)' = Overpaid(c, q)
      BY <2>2, <2>4
    <3> QED
      BY <1>1, <1>2, <1>4, <2>6, <3>3, <3>4 DEF Due
  <2>7. CASE q # p.origin
    <3>1. T = S
      BY <2>7
    <3> HIDE DEF g, S, T, U, W
    <3>2. Underway(c, q)' = Underway(c, q) /\ Overpaid(c, q)' = Overpaid(c, q)
      BY <2>2, <2>3, <2>4, <3>1
    <3> QED
      BY <1>4, <2>7, <3>2 DEF Due
  <2> QED
    BY <2>6, <2>7
<1>5. CASE x # c
  <2>1. Unsettled(x)' = Unsettled(x) /\ PaidTwice(x)' = PaidTwice(x) /\ sent'[x] = sent[x]
    BY <1>3, <1>5
  <2>2. Underway(x, q)' = Underway(x, q) /\ Overpaid(x, q)' = Overpaid(x, q)
    BY <2>1 DEF Underway, Overpaid, Coins
  <2> QED
    BY <1>5, <2>2 DEF Due
<1> QED
  BY <1>4, <1>5

\* What is unsettled, and what was paid twice, in both directions stays so.
LEMMA DueSame ==
  ASSUME sent' = sent,
         \A x \in Chains : Unsettled(x)' = Unsettled(x) /\ PaidTwice(x)' = PaidTwice(x)
  PROVE  \A x, q \in Chains : Due(x, q)' = Due(x, q)
  BY DEF Due, Underway, Overpaid, Coins

-----------------------------------------------------------------------------
\* What the proof of EscrowBacksVouchers needs to know of a state.
EscrowInv == IInv /\ HostInv /\ Balanced

\* One chain's coins of one denomination and what is due change alike.
LEMMA BalanceKept ==
  ASSUME TypeOK, Balanced, NEW c \in Chains, NEW o \in Chains, NEW a \in Int,
         \A x, q \in Chains :
           Held(x, q)' = IF x = c /\ q = o THEN Held(x, q) + a ELSE Held(x, q),
         \A x, q \in Chains :
           Due(x, q)' = IF x = c /\ q = o THEN Due(x, q) + a ELSE Due(x, q)
  PROVE  Balanced'
<1> SUFFICES ASSUME NEW q \in Chains
             PROVE  Held(q, q)' + Held(Other(q), q)'
                      = Due(q, q)' + Due(Other(q), q)'
  BY DEF Balanced
<1>1. /\ Other(q) \in Chains /\ Other(q) # q /\ (c = q \/ c = Other(q))
      /\ Held(q, q) + Held(Other(q), q) = Due(q, q) + Due(Other(q), q)
  BY OtherFacts DEF Balanced
<1>2. ASSUME NEW x \in Chains PROVE Held(x, q) \in Int /\ Due(x, q) \in Int
  BY HeldType, DueFacts
<1>3. Held(q, q) \in Int /\ Held(Other(q), q) \in Int
      /\ Due(q, q) \in Int /\ Due(Other(q), q) \in Int
  BY <1>1, <1>2
<1>4. CASE q = o /\ c = q
  BY <1>1, <1>3, <1>4
<1>5. CASE q = o /\ c = Other(q)
  BY <1>1, <1>3, <1>5
<1>6. CASE q # o
  BY <1>1, <1>3, <1>6
<1> QED
  BY <1>1, <1>4, <1>5, <1>6

LEMMA BalanceSame ==
  ASSUME Balanced, bank' = bank,
         \A x, q \in Chains : Due(x, q)' = Due(x, q)
  PROVE  Balanced'
<1>1. \A x, q \in Chains : Held(x, q)' = Held(x, q)
  BY DEF Held
<1> QED
  BY <1>1, OtherFacts DEF Balanced

\* The escrow account of the issuer can only be short for an unsettled packet
\* of its own coins, and when another such packet was paid twice.
LEMMA EscrowShort ==
  ASSUME TypeOK, Balanced, NEW c \in Chains, NEW s \in Chains, NEW n \in Unsettled(s),
         UnescrowFails(c, sent[s][n].origin, sent[s][n].amount)
  PROVE  \E x \in Chains : \E i \in PaidTwice(x) : sent[x][i].origin = c
<1>1. sent[s][n].origin = c /\ bank[c].escrow[c] < sent[s][n].amount
  BY DEF UnescrowFails
<1>2. bank[c].escrow[c] + Overpaid(c, c) + Overpaid(Other(c), c)
        = bank[Other(c)].user[c] + Underway(c, c) + Underway(Other(c), c)
  BY BalancedIsBacked DEF EscrowBacksVouchers
<1>3. Other(c) \in Chains /\ (s = c \/ s = Other(c))
  BY OtherFacts
<1>4. bank[Other(c)].user[c] \in Nat /\ bank[c].escrow[c] \in Nat
  BY <1>3 DEF TypeOK, Bank
<1>5. ASSUME NEW x \in Chains PROVE Underway(x, c) \in Nat /\ Overpaid(x, c) \in Nat
  BY DueFacts
<1>6. sent[s][n].amount \in Nat /\ sent[s][n].amount <= Underway(s, c)
  <2>1. Unsettled(s) \in SUBSET DOMAIN sent[s]
    BY DueFacts
  <2> QED
    BY <1>1, <2>1, CoinsNat, SentPacket DEF Underway
<1>7. Overpaid(c, c) # 0 \/ Overpaid(Other(c), c) # 0
  BY <1>1, <1>2, <1>3, <1>4, <1>5, <1>6
<1>8. PICK x \in Chains : Overpaid(x, c) # 0
  BY <1>3, <1>7
<1>9. {i \in PaidTwice(x) : sent[x][i].origin = c} # {}
  BY <1>8, SumEmpty DEF Overpaid, Coins
<1> QED
  BY <1>9

\* A packet that is sent is under way from then on.
LEMMA SendBalance ==
  ASSUME EscrowInv, TypeOK', NEW c \in Chains, NEW p \in NewPackets(c), SendTransfer(c, p)
  PROVE  Balanced'
<1> DEFINE n == host[c].nextSend
           d == Other(c)
<1>1. /\ n \in Seqs /\ n \notin DOMAIN sent[c]
      /\ DOMAIN sent'[c] = DOMAIN sent[c] \cup {n} /\ sent'[c][n] = p
      /\ \A i \in DOMAIN sent[c] : sent'[c][i] = sent[c][i]
      /\ \A e \in Chains : e # c => sent'[e] = sent[e] /\ host'[e] = host[e]
      /\ host'[c].acks = host[c].acks
      /\ refunded' = refunded
      /\ bank'[c] = SendCoins(c, p.origin, p.amount)
      /\ \A e \in Chains : e # c => bank'[e] = bank[e]
  BY SendEffect DEF EscrowInv, HostInv
<1>2. d \in Chains /\ d # c /\ Other(d) = c
  BY OtherFacts
<1>3. TypeOK /\ Balanced /\ Answered /\ RefundsClosed /\ ReceivedInTime
  BY DEF EscrowInv, HostInv, TypeInv, IInv
<1>4. p.origin \in Chains /\ p.amount \in Nat
  BY TransferAssumption DEF NewPackets
<1>5. host[d].acks[n] = "none" /\ n \notin refunded[c]
  BY <1>1, <1>2, <1>3 DEF Answered, RefundsClosed, ReceivedInTime
<1> HIDE DEF n
<1>6. Unsettled(c)' = Unsettled(c) \cup {n}
  BY <1>1, <1>2, <1>5 DEF Unsettled
<1>7. Unsettled(d)' = Unsettled(d)
  BY <1>1, <1>2 DEF Unsettled
<1>10. \A x \in Chains : PaidTwice(x)' = PaidTwice(x)
  <2>1. PaidTwice(c)' = PaidTwice(c)
    BY <1>1, <1>2, <1>5 DEF PaidTwice
  <2>2. PaidTwice(d)' = PaidTwice(d)
    BY <1>1, <1>2 DEF PaidTwice
  <2> QED
    BY <2>1, <2>2, OtherFacts
<1>8. \A x, q \in Chains :
        Due(x, q)' = IF x = c /\ q = p.origin THEN Due(x, q) + p.amount ELSE Due(x, q)
  BY <1>1, <1>2, <1>3, <1>6, <1>7, <1>10, DueSent
<1>9. \A x, q \in Chains :
        Held(x, q)' = IF x = c /\ q = p.origin THEN Held(x, q) + p.amount ELSE Held(x, q)
  BY <1>1, <1>3, <1>4, HeldBySend
<1> QED
  BY <1>3, <1>4, <1>8, <1>9, BalanceKept

\* A packet of c that is paid out on chain x, by a receipt or a refund there, is
\* no longer due.
LEMMA SettleBalance ==
  ASSUME TypeOK, Balanced, NEW c \in Chains, NEW n \in DOMAIN sent[c], NEW x \in Chains,
         bank'[x] = ReceiveCoins(x, sent[c][n].origin, sent[c][n].amount),
         \A e \in Chains : e # x => bank'[e] = bank[e],
         \A y, q \in Chains :
           Due(y, q)' = IF y = c /\ q = sent[c][n].origin
                        THEN Due(y, q) - sent[c][n].amount ELSE Due(y, q)
  PROVE  Balanced'
<1> DEFINE o == sent[c][n].origin
           a == sent[c][n].amount
<1>1. o \in Chains /\ a \in Nat
  BY SentPacket
<1>2. \A y, q \in Chains :
        Due(y, q)' = IF y = c /\ q = o THEN Due(y, q) - a ELSE Due(y, q)
  OBVIOUS
<1>3. \A y, q \in Chains :
        Held(y, q)' = IF y = x /\ q = o THEN Held(y, q) - a ELSE Held(y, q)
  BY <1>1, HeldByReceive
<1>4. ASSUME NEW q \in Chains
      PROVE  /\ Other(q) \in Chains /\ Other(q) # q
             /\ (c = q \/ c = Other(q)) /\ (x = q \/ x = Other(q))
             /\ Held(q, q) + Held(Other(q), q) = Due(q, q) + Due(Other(q), q)
  BY OtherFacts DEF Balanced
<1>5. ASSUME NEW y \in Chains, NEW q \in Chains
      PROVE  Held(y, q) \in Int /\ Due(y, q) \in Int
  BY HeldType, DueFacts
<1> HIDE DEF o, a
<1>6. SUFFICES ASSUME NEW q \in Chains
               PROVE  Held(q, q)' + Held(Other(q), q)'
                        = Due(q, q)' + Due(Other(q), q)'
  BY DEF Balanced
<1>7. CASE q # o
  BY <1>2, <1>3, <1>4, <1>5, <1>7
<1>8. CASE q = o
  <2>1. /\ Held(q, q)' + Held(Other(q), q)' = Held(q, q) + Held(Other(q), q) - a
    BY <1>1, <1>3, <1>4, <1>5, <1>8
  <2>2. Due(q, q)' + Due(Other(q), q)'
          = Due(q, q) + Due(Other(q), q) - a
    BY <1>1, <1>2, <1>4, <1>5, <1>8
  <2> QED
    BY <1>1, <1>4, <1>5, <2>1, <2>2
<1> QED
  BY <1>7, <1>8

\* What the application does with a packet is no longer under way; a packet it
\* does not understand stays so.
LEMMA RecvBalance ==
  ASSUME EscrowInv, NEW c \in Chains, NEW n \in Seqs, RecvPacket(c, n), ~RecvFails(c, n)
  PROVE  Balanced'
<1> DEFINE d == Other(c)
           p == sent[c][n]
<1>1. n \in DOMAIN sent[c] /\ host[d].receipts[n] = 0 /\ ~(height[d] > p.timeout)
  BY DEF RecvPacket, Receivable, HasPacketReceipt, HasExpired, HostHeight
<1>2. d \in Chains /\ d # c /\ Other(d) = c
  BY OtherFacts
<1>3. TypeInv /\ TypeOK /\ Balanced /\ Answered /\ SentSoFar /\ Types /\ RefundedLate
  BY DEF EscrowInv, HostInv, TypeInv, IInv
<1>4. host[d].acks[n] = "none"
  BY <1>1, <1>2, <1>3 DEF Answered
<1>5. n \notin refunded[c]
  <2>1. p.timeout \in Nat /\ height[d] \in Nat
    BY <1>1, <1>2, <1>3 DEF SentSoFar, Types
  <2> QED
    BY <1>1, <1>3, <2>1 DEF RefundedLate
<1>6. n \in Unsettled(c)
  BY <1>1, <1>4, <1>5 DEF Unsettled
<1>8. /\ host'[d].acks = [host[d].acks EXCEPT ![n] = IF p.parses THEN "ok" ELSE "error"]
      /\ \A e \in Chains : e # d => host'[e] = host[e]
      /\ sent' = sent /\ refunded' = refunded
      /\ p.parses => bank'[d] = ReceiveCoins(d, p.origin, p.amount)
      /\ ~p.parses => bank' = bank
      /\ \A e \in Chains : e # d => bank'[e] = bank[e]
  <2>1. Received(c, n, d)
    BY <1>3, RecvEffect
  <2> QED
    BY <2>1 DEF Received
<1>9. host[d].acks \in [Seqs -> {"none", "ok", "error"}] /\ DOMAIN sent[c] \subseteq Seqs
  BY <1>2, <1>3, SentInSeqs DEF TypeOK, Host
<1>10. Unsettled(d)' = Unsettled(d) /\ \A x \in Chains : PaidTwice(x)' = PaidTwice(x)
  <2>1. Unsettled(d)' = Unsettled(d) /\ PaidTwice(d)' = PaidTwice(d)
    BY <1>2, <1>8 DEF Unsettled, PaidTwice
  <2>2. PaidTwice(c)' = PaidTwice(c)
    BY <1>5, <1>8, <1>9 DEF PaidTwice
  <2> QED
    BY <2>1, <2>2, OtherFacts
<1> HIDE DEF d, p
<1>11. CASE p.parses
  <2>1. Unsettled(c)' = Unsettled(c) \ {n}
    BY <1>8, <1>9, <1>11 DEF Unsettled, d
  <2>2. \A x, q \in Chains :
          Due(x, q)' = IF x = c /\ q = sent[c][n].origin
                       THEN Due(x, q) - sent[c][n].amount ELSE Due(x, q)
    BY <1>3, <1>6, <1>8, <1>10, <2>1, DueSettled DEF d
  <2>3. bank'[d] = ReceiveCoins(d, sent[c][n].origin, sent[c][n].amount)
    BY <1>8, <1>11 DEF p
  <2> QED
    BY <1>1, <1>2, <1>3, <1>8, <2>2, <2>3, SettleBalance
<1>12. CASE ~p.parses
  <2>1. Unsettled(c)' = Unsettled(c)
    BY <1>4, <1>8, <1>9, <1>12 DEF Unsettled, d
  <2>2. bank' = bank
    BY <1>8, <1>12
  <2>3. \A x \in Chains : Unsettled(x)' = Unsettled(x)
    BY <1>10, <2>1, OtherFacts DEF d
  <2>4. \A x, q \in Chains : Due(x, q)' = Due(x, q)
    BY <1>8, <1>10, <2>3, DueSame
  <2> QED
    BY <1>3, <1>8, <2>2, <2>4, BalanceSame
<1> QED
  BY <1>11, <1>12

\* A refund pays back a packet that is under way, or pays a second time one
\* that has been received.
LEMMA TimeoutBalance ==
  ASSUME EscrowInv, NEW c \in Chains, NEW n \in Seqs,
         NEW h \in 1 .. height[Other(c)], TimeoutPacket(c, n, h),
         ~UnescrowFails(c, sent[c][n].origin, sent[c][n].amount)
  PROVE  Balanced'
<1> DEFINE d == Other(c)
           p == sent[c][n]
<1>1. d \in Chains /\ d # c /\ Other(d) = c
  BY OtherFacts
<1>2. TypeInv /\ TypeOK /\ OpenSent /\ Balanced /\ RefundsClosed
  BY DEF EscrowInv, HostInv, TypeInv
<1>3. n \in host[c].commitments /\ n \in DOMAIN sent[c] /\ n \notin refunded[c]
  BY <1>2 DEF TimeoutPacket, TimedOut, HasPacketCommitment, OpenSent, RefundsClosed
<1>4. /\ host' = [host EXCEPT ![c] = DeletePacketCommitment(@, n)]
      /\ bank' = [bank EXCEPT ![c] = ReceiveCoins(c, p.origin, p.amount)]
      /\ refunded' = [refunded EXCEPT ![c] = @ \cup {n}]
      /\ sent' = sent
  BY DEF TimeoutPacket
<1>5. /\ bank'[c] = ReceiveCoins(c, p.origin, p.amount)
      /\ \A e \in Chains : e # c => bank'[e] = bank[e]
  BY <1>2, <1>4 DEF TypeOK
<1>6. \A e \in Chains : host'[e].acks = host[e].acks
  BY <1>2, <1>4, DeleteEffect
<1>7. refunded'[c] = refunded[c] \cup {n} /\ refunded'[d] = refunded[d]
  BY <1>1, <1>2, <1>4 DEF TypeOK
<1>8. Unsettled(d)' = Unsettled(d) /\ PaidTwice(d)' = PaidTwice(d)
  BY <1>1, <1>4, <1>6, <1>7 DEF Unsettled, PaidTwice
<1>9. \A x, q \in Chains :
        Due(x, q)' = IF x = c /\ q = sent[c][n].origin
                     THEN Due(x, q) - sent[c][n].amount ELSE Due(x, q)
  <2>1. CASE host[d].acks[n] # "ok"
    <3>1. n \in Unsettled(c) /\ Unsettled(c)' = Unsettled(c) \ {n}
      BY <1>1, <1>3, <1>4, <1>6, <1>7, <2>1 DEF Unsettled
    <3>2. PaidTwice(c)' = PaidTwice(c)
      BY <1>1, <1>4, <1>6, <1>7, <2>1 DEF PaidTwice
    <3>3. \A x \in Chains : PaidTwice(x)' = PaidTwice(x)
      BY <1>8, <3>2, OtherFacts
    <3> QED
      BY <1>2, <1>4, <1>8, <3>1, <3>3, DueSettled
  <2>2. CASE host[d].acks[n] = "ok"
    <3>1. n \notin PaidTwice(c) /\ PaidTwice(c)' = PaidTwice(c) \cup {n}
      BY <1>1, <1>3, <1>4, <1>6, <1>7, <2>2 DEF PaidTwice
    <3>2. Unsettled(c)' = Unsettled(c)
      BY <1>1, <1>4, <1>6, <1>7, <2>2 DEF Unsettled
    <3>3. \A x \in Chains : Unsettled(x)' = Unsettled(x)
      BY <1>8, <3>2, OtherFacts
    <3> QED
      BY <1>2, <1>3, <1>4, <1>8, <3>1, <3>3, DuePaidTwice
  <2> QED
    BY <2>1, <2>2
<1> QED
  BY <1>2, <1>3, <1>5, <1>9, SettleBalance

\* What is neither sent nor settled changes no balance.
LEMMA OtherBalance ==
  ASSUME TypeOK, Balanced, bank' = bank, sent' = sent, refunded' = refunded,
         \A d \in Chains : host'[d].acks = host[d].acks
  PROVE  Balanced'
<1>1. \A x \in Chains : Unsettled(x)' = Unsettled(x)
  BY OtherFacts DEF Unsettled
<1>3. \A x \in Chains : PaidTwice(x)' = PaidTwice(x)
  BY OtherFacts DEF PaidTwice
<1>2. \A x, q \in Chains : Due(x, q)' = Due(x, q)
  BY <1>1, <1>3, DueSame
<1> QED
  BY <1>2, BalanceSame

LEMMA EscrowStep ==
  ASSUME EscrowInv, [Next]_vars
  PROVE  EscrowInv'
<1>1. IInv' /\ HostInv'
  BY NextKeeps, HostStep DEF EscrowInv
<1>2. TypeInv /\ TypeOK /\ TypeOK' /\ Balanced
  BY <1>1 DEF EscrowInv, HostInv, TypeInv
<1>3. Balanced'
  <2>1. ASSUME NEW c \in Chains, Commit(c) PROVE Balanced'
    BY <1>2, <2>1, OtherBalance DEF Commit
  <2>2. ASSUME NEW c \in Chains, NEW p \in NewPackets(c), SendTransfer(c, p)
        PROVE  Balanced'
    BY <1>2, <2>2, SendBalance
  <2>3. ASSUME NEW c, NEW what, Panic(c, what) PROVE Balanced'
    BY <1>2, <2>3, OtherBalance DEF Panic
  <2>4. ASSUME NEW c \in Chains, NEW n \in Seqs, RecvPacket(c, n) PROVE Balanced'
    <3>1. CASE RecvFails(c, n)
      BY <2>3, <2>4, <3>1 DEF RecvPacket, RecvFails
    <3>2. CASE ~RecvFails(c, n)
      BY <2>4, <3>2, RecvBalance
    <3> QED
      BY <3>1, <3>2
  <2>5. ASSUME NEW c \in Chains, NEW n \in Seqs, AckPacket(c, n) PROVE Balanced'
    <3>1. \A d \in Chains : host'[d].acks = host[d].acks
      BY <1>2, <2>5, DeleteEffect DEF AckPacket
    <3> QED
      BY <1>2, <2>5, <3>1, OtherBalance DEF AckPacket
  <2>6. ASSUME NEW c \in Chains, NEW n \in Seqs, NEW h \in 1 .. height[Other(c)],
               TimeoutPacket(c, n, h)
        PROVE  Balanced'
    <3>1. CASE UnescrowFails(c, sent[c][n].origin, sent[c][n].amount)
      BY <2>3, <2>6, <3>1 DEF TimeoutPacket
    <3>2. CASE ~UnescrowFails(c, sent[c][n].origin, sent[c][n].amount)
      BY <2>6, <3>2, TimeoutBalance
    <3> QED
      BY <3>1, <3>2
  <2>7. CASE UNCHANGED vars
    BY <1>2, <2>7, OtherBalance DEF vars
  <2> QED
    BY <2>1, <2>2, <2>3, <2>4, <2>5, <2>6, <2>7 DEF Next, SendUnpaid
<1> QED
  BY <1>1, <1>3 DEF EscrowInv

LEMMA InitEscrowInv == Init => EscrowInv
<1> SUFFICES ASSUME Init PROVE EscrowInv
  OBVIOUS
<1>1. \A x, q \in Chains : Held(x, q) = 0
  BY OtherFacts DEF Init, Held
<1>2. \A x, q \in Chains : Due(x, q) = 0
  <2> SUFFICES ASSUME NEW x \in Chains, NEW q \in Chains PROVE Due(x, q) = 0
    OBVIOUS
  <2>1. Unsettled(x) = {} /\ PaidTwice(x) = {}
    BY DEF Init, Unsettled, PaidTwice
  <2>2. Coins(x, {}, q) = 0
    BY SumEmpty DEF Coins
  <2> QED
    BY <2>1, <2>2 DEF Due, Underway, Overpaid
<1>3. Balanced
  BY <1>1, <1>2, OtherFacts DEF Balanced
<1> QED
  BY <1>3, InitIInv, InitHostInv DEF EscrowInv

\* What transfer.rs locks up in the escrow account of a chain is what the other
\* chain has minted for it and what is under way in either direction, short of
\* the coins of the packets that were both received and refunded, and by nothing
\* else, for any supply, amounts, timeouts and number of packets and blocks.
THEOREM EscrowIsFull == Spec => []EscrowBacksVouchers
<1>1. EscrowInv => EscrowBacksVouchers
  BY BalancedIsBacked DEF EscrowInv, HostInv, TypeInv
<1>2. EscrowInv /\ [Next]_vars => EscrowInv'
  BY EscrowStep
<1> QED
  BY <1>1, <1>2, InitEscrowInv, PTL DEF Spec
-----------------------------------------------------------------------------
(* Panics.                                                                 *)

\* A packet with coins of c was received in the block after its timeout height.
Explained(c) == \E s \in Chains : \E n \in AtExpiry(s) : sent[s][n].origin = c

\* A packet that is paid twice was received in that block.
LEMMA TwiceAtExpiry ==
  ASSUME EscrowInv, NEW s \in Chains
  PROVE  PaidTwice(s) \subseteq AtExpiry(s)
<1> SUFFICES ASSUME NEW n \in PaidTwice(s) PROVE n \in AtExpiry(s)
  OBVIOUS
<1>1. n \in DOMAIN sent[s] /\ n \in refunded[s] /\ host[Other(s)].acks[n] = "ok"
  BY DEF PaidTwice
<1>2. n \in Seqs /\ Other(s) \in Chains
  BY <1>1, OtherFacts DEF EscrowInv, IInv, Types
<1>3. host[Other(s)].receipts[n] # 0
  BY <1>1, <1>2 DEF EscrowInv, HostInv, Answered
<1>4. host[Other(s)].receipts[n] = sent[s][n].timeout + 1
  BY <1>1, <1>3 DEF EscrowInv, IInv, RefundedLate
<1> QED
  BY <1>1, <1>4 DEF AtExpiry

LEMMA ShortIsExplained ==
  ASSUME EscrowInv, NEW c \in Chains, NEW s \in Chains, NEW n \in Unsettled(s),
         UnescrowFails(c, sent[s][n].origin, sent[s][n].amount)
  PROVE  Explained(c)
<1>1. TypeOK /\ Balanced
  BY DEF EscrowInv, HostInv, TypeInv
<1>2. PICK x \in Chains : \E i \in PaidTwice(x) : sent[x][i].origin = c
  BY <1>1, EscrowShort
<1> QED
  BY <1>2, TwiceAtExpiry DEF Explained

\* The receipt that cannot be paid is of a packet that is under way.
LEMMA RecvPanics ==
  ASSUME EscrowInv, NEW c \in Chains, NEW n \in Seqs, RecvPacket(c, n), RecvFails(c, n)
  PROVE  Explained(Other(c))
<1> DEFINE d == Other(c)
           p == sent[c][n]
<1>1. n \in DOMAIN sent[c] /\ host[d].receipts[n] = 0 /\ ~(height[d] > p.timeout)
  BY DEF RecvPacket, Receivable, HasPacketReceipt, HasExpired, HostHeight
<1>2. d \in Chains
  BY OtherFacts
<1>3. Answered /\ SentSoFar /\ Types /\ RefundedLate
  BY DEF EscrowInv, HostInv, IInv
<1>4. host[d].acks[n] = "none"
  BY <1>1, <1>2, <1>3 DEF Answered
<1>5. n \notin refunded[c]
  <2>1. p.timeout \in Nat /\ height[d] \in Nat
    BY <1>1, <1>2, <1>3 DEF SentSoFar, Types
  <2> QED
    BY <1>1, <1>3, <2>1 DEF RefundedLate
<1>6. n \in Unsettled(c) /\ UnescrowFails(d, p.origin, p.amount)
  BY <1>1, <1>4, <1>5 DEF Unsettled, RecvFails
<1> QED
  BY <1>2, <1>6, ShortIsExplained

\* The refund that cannot be paid is of a packet that is under way, or of one
\* that was received in the block after its timeout height.
LEMMA TimeoutPanics ==
  ASSUME EscrowInv, NEW c \in Chains, NEW n \in Seqs,
         NEW h \in 1 .. height[Other(c)], TimeoutPacket(c, n, h),
         UnescrowFails(c, sent[c][n].origin, sent[c][n].amount)
  PROVE  Explained(c)
<1>1. TypeInv /\ OpenSent /\ RefundsClosed /\ Answered /\ IInv
  BY DEF EscrowInv, HostInv, TypeInv
<1>2. n \in DOMAIN sent[c] /\ n \notin refunded[c] /\ sent[c][n].origin = c
  BY <1>1 DEF TimeoutPacket, TimedOut, HasPacketCommitment, OpenSent, RefundsClosed,
              UnescrowFails
<1>3. CASE host[Other(c)].acks[n] # "ok"
  <2>1. n \in Unsettled(c)
    BY <1>2, <1>3 DEF Unsettled
  <2> QED
    BY <2>1, ShortIsExplained
<1>4. CASE host[Other(c)].acks[n] = "ok"
  <2>1. host[Other(c)].receipts[n] # 0
    BY <1>1, <1>4, OtherFacts DEF Answered
  <2>2. host[Other(c)].receipts[n] = sent[c][n].timeout + 1
    BY <1>1, <2>1, TimeoutUnreceived
  <2> QED
    BY <1>2, <1>4, <2>2 DEF AtExpiry, Explained
<1> QED
  BY <1>3, <1>4

\* What was received, and in which block, is never written again.
LEMMA ExpiryStays ==
  ASSUME EscrowInv, [Next]_vars, NEW s \in Chains, NEW n \in AtExpiry(s)
  PROVE  n \in AtExpiry(s)' /\ sent'[s][n] = sent[s][n]
<1> DEFINE d == Other(s)
<1>1. TypeInv /\ Answered
  BY DEF EscrowInv, HostInv
<1>2. d \in Chains /\ d # s /\ Other(d) = s
  BY OtherFacts
<1>3. n \in DOMAIN sent[s] /\ host[d].acks[n] = "ok"
      /\ host[d].receipts[n] = sent[s][n].timeout + 1
  BY DEF AtExpiry
<1> DEFINE Kept == /\ n \in DOMAIN sent'[s] /\ sent'[s][n] = sent[s][n]
                   /\ host'[d].acks[n] = host[d].acks[n]
                   /\ host'[d].receipts[n] = host[d].receipts[n]
<1>4. Kept => n \in AtExpiry(s)' /\ sent'[s][n] = sent[s][n]
  BY <1>3 DEF AtExpiry
<1>5. ASSUME host' = host, sent' = sent PROVE Kept
  BY <1>3, <1>5
<1>6. ASSUME NEW c \in Chains, NEW p \in NewPackets(c), SendTransfer(c, p) PROVE Kept
  <2>1. /\ \A i \in DOMAIN sent[c] : i \in DOMAIN sent'[c] /\ sent'[c][i] = sent[c][i]
        /\ \A e \in Chains : e # c => sent'[e] = sent[e] /\ host'[e] = host[e]
        /\ host'[c].acks = host[c].acks /\ host'[c].receipts = host[c].receipts
    BY <1>1, <1>6, SendEffect
  <2> QED
    BY <1>2, <1>3, <2>1
<1>7. ASSUME NEW c \in Chains, NEW m \in Seqs, RecvPacket(c, m) PROVE Kept
  <2>1. CASE RecvFails(c, m)
    BY <1>5, <1>7, <2>1 DEF RecvPacket, RecvFails, Panic
  <2>2. CASE ~RecvFails(c, m)
    <3>1. Received(c, m, Other(c))
      BY <1>1, <1>7, <2>2, RecvEffect
    <3>2. CASE c = s
      <4>1. host[d].acks[m] = "none"
        BY <1>1, <1>2, <3>1, <3>2 DEF Answered, Received
      <4>2. m # n
        BY <1>3, <4>1
      <4>3. /\ host[d].acks \in [Seqs -> {"none", "ok", "error"}]
            /\ host[d].receipts \in [Seqs -> Nat] /\ n \in Seqs
        BY <1>1, <1>2, <1>3, SentInSeqs DEF TypeInv, TypeOK, Host
      <4> QED
        BY <1>3, <3>1, <3>2, <4>2, <4>3 DEF Received
    <3>3. CASE c # s
      <4>1. Other(c) # d
        BY <1>2, <3>3, OtherFacts
      <4> QED
        BY <1>2, <1>3, <3>1, <4>1 DEF Received
    <3> QED
      BY <3>2, <3>3
  <2> QED
    BY <2>1, <2>2
<1>8. ASSUME NEW c \in Chains, NEW m \in Seqs,
             host' = [host EXCEPT ![c] = DeletePacketCommitment(@, m)], sent' = sent
      PROVE  Kept
  BY <1>1, <1>2, <1>3, <1>8, DeleteEffect
<1>9. ASSUME NEW c \in Chains, NEW m \in Seqs, NEW h \in 1 .. height[Other(c)],
             TimeoutPacket(c, m, h)
      PROVE  Kept
  <2>1. CASE UnescrowFails(c, sent[c][m].origin, sent[c][m].amount)
    BY <1>5, <1>9, <2>1 DEF TimeoutPacket, Panic
  <2>2. CASE ~UnescrowFails(c, sent[c][m].origin, sent[c][m].amount)
    BY <1>8, <1>9, <2>2 DEF TimeoutPacket
  <2> QED
    BY <2>1, <2>2
<1> HIDE DEF Kept
<1>10. Kept
  BY <1>5, <1>6, <1>7, <1>8, <1>9 DEF Next, Commit, SendUnpaid, Panic, AckPacket, vars
<1> QED
  BY <1>4, <1>10

\* A chain that panics in this step does so for such a packet.
LEMMA PanicStep ==
  ASSUME EscrowInv, [Next]_vars, NEW c \in Chains,
         panicked'[c] \in {"recv", "timeout"}, panicked'[c] # panicked[c]
  PROVE  Explained(c)
<1>1. TypeInv /\ panicked \in [Chains -> {"none", "send", "recv", "timeout"}]
  BY DEF EscrowInv, HostInv, TypeInv, TypeOK
<1>2. ASSUME NEW e, NEW what, Panic(e, what) PROVE e = c /\ what \in {"recv", "timeout"}
  BY <1>1, <1>2 DEF Panic
<1>3. CASE panicked' = panicked
  BY <1>3
<1>4. ASSUME NEW e \in Chains, NEW p \in NewPackets(e), SendTransfer(e, p) PROVE FALSE
  BY <1>4 DEF SendTransfer
<1>5. ASSUME NEW e \in Chains, NEW p \in NewPackets(e), SendUnpaid(e, p) PROVE FALSE
  BY <1>2, <1>5 DEF SendUnpaid
<1>6. ASSUME NEW e \in Chains, NEW n \in Seqs, RecvPacket(e, n) PROVE Explained(c)
  <2>1. CASE RecvFails(e, n)
    <3>1. Other(e) = c
      BY <1>2, <1>6, <2>1 DEF RecvPacket, RecvFails
    <3> QED
      BY <1>6, <2>1, <3>1, RecvPanics
  <2>2. CASE ~RecvFails(e, n)
    BY <1>3, <1>6, <2>2 DEF RecvPacket, RecvFails
  <2> QED
    BY <2>1, <2>2
<1>7. ASSUME NEW e \in Chains, NEW n \in Seqs, NEW h \in 1 .. height[Other(e)],
             TimeoutPacket(e, n, h)
      PROVE  Explained(c)
  <2>1. CASE UnescrowFails(e, sent[e][n].origin, sent[e][n].amount)
    <3>1. e = c
      BY <1>2, <1>7, <2>1 DEF TimeoutPacket
    <3> QED
      BY <1>7, <2>1, <3>1, TimeoutPanics
  <2>2. CASE ~UnescrowFails(e, sent[e][n].origin, sent[e][n].amount)
    BY <1>3, <1>7, <2>2 DEF TimeoutPacket
  <2> QED
    BY <2>1, <2>2
<1> QED
  BY <1>3, <1>4, <1>5, <1>6, <1>7 DEF Next, Commit, AckPacket, vars

\* No packet and no timeout halts a chain through the unwraps in transfer.rs on
\* unescrow and refund, unless one with coins of that chain was received in the
\* block after its timeout height, for any values of the constants and whatever
\* relayers do.
THEOREM OnlyExpiryCanPanic == Spec => []OnlyExpiryPanics
<1> DEFINE Inv == EscrowInv /\ OnlyExpiryPanics
<1>1. Init => Inv
  BY InitEscrowInv DEF Init, OnlyExpiryPanics
<1>2. Inv /\ [Next]_vars => Inv'
  <2> SUFFICES ASSUME EscrowInv, OnlyExpiryPanics, [Next]_vars
               PROVE  EscrowInv' /\ OnlyExpiryPanics'
    OBVIOUS
  <2>1. EscrowInv'
    BY EscrowStep
  <2>2. ASSUME NEW c \in Chains, panicked'[c] \in {"recv", "timeout"} PROVE Explained(c)'
    <3>1. Explained(c)
      <4>1. CASE panicked'[c] = panicked[c]
        BY <2>2, <4>1 DEF OnlyExpiryPanics, Explained
      <4>2. CASE panicked'[c] # panicked[c]
        BY <2>2, <4>2, PanicStep
      <4> QED
        BY <4>1, <4>2
    <3>2. PICK s \in Chains : \E n \in AtExpiry(s) : sent[s][n].origin = c
      BY <3>1 DEF Explained
    <3>3. PICK n \in AtExpiry(s) : sent[s][n].origin = c
      BY <3>2
    <3>4. n \in AtExpiry(s)' /\ sent'[s][n] = sent[s][n]
      BY ExpiryStays
    <3> QED
      BY <3>3, <3>4 DEF Explained
  <2>3. OnlyExpiryPanics'
    BY <2>2 DEF OnlyExpiryPanics, Explained
  <2> QED
    BY <2>1, <2>3
<1>3. Inv => OnlyExpiryPanics
  OBVIOUS
<1> QED
  BY <1>1, <1>2, <1>3, PTL DEF Spec
=============================================================================
