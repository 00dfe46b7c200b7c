----------------------------- MODULE IbcContext -----------------------------
(***************************************************************************)
(* The IBC host: IbcContext (modules/src/ibc/impls.rs) with the client     *)
(* contexts (modules/src/ibc/client_contexts.rs), driven by the handlers   *)
(* of the ibc crate and by client recovery through governance, in the      *)
(* block cycle of the application.  Packets are the subject of Transfer.   *)
(*                                                                         *)
(* The clock of the counterparty is its height: the consensus state for    *)
(* height h has timestamp h.                                               *)
(***************************************************************************)
EXTENDS StoreOps, FiniteSets

CONSTANTS
  Heights,      \* counterparty heights a header may have, below 100
  MaxClients,   \* bound: clients
  MaxConns,     \* bound: connections
  MaxChans,     \* bound: channels
  MaxHeight     \* bound: blocks begun

ASSUME IbcAssumption ==
  /\ Heights \subseteq 1 .. 99
  /\ MaxClients \in Nat /\ MaxConns \in Nat /\ MaxChans \in Nat /\ MaxHeight \in Nat

VARIABLES
  ibc,         \* the store of the module
  hostCons,    \* consensus_states: timestamps of host blocks, outside the store
  pc,          \* "idle", "block", "tx", "failed", "panicked"
  halted       \* prev_consensus_state has reached its unreachable!()

vars == <<ibc, hostCons, pc, halted>>

Clients == 0 .. MaxClients - 1
Conns == 0 .. MaxConns - 1
Chans == 0 .. MaxChans - 1

NextClientSequencePath == <<"nextClientSequence", 0, 0>>
NextConnectionSequencePath == <<"nextConnectionSequence", 0, 0>>
NextChannelSequencePath == <<"nextChannelSequence", 0, 0>>
ClientStatePath(c) == <<"clientState", c, 0>>
ClientConsensusStatePath(c, h) == <<"consensusStates", c, h>>
ClientUpdateTimePath(c, h) == <<"processedTime", c, h>>
ClientUpdateHeightPath(c, h) == <<"processedHeight", c, h>>
ConnectionPath(k) == <<"connections", k, 0>>
ClientConnectionPath(c) == <<"clientConnections", c, 0>>
ChannelEndPath(k) == <<"channelEnds", k, 0>>

Paths ==
  {NextClientSequencePath, NextConnectionSequencePath, NextChannelSequencePath}
    \cup {ClientStatePath(c) : c \in Clients}
    \cup {ClientConnectionPath(c) : c \in Clients}
    \cup (UNION {{ClientConsensusStatePath(c, h), ClientUpdateTimePath(c, h),
                  ClientUpdateHeightPath(c, h)} : c \in Clients, h \in Heights})
    \cup {ConnectionPath(k) : k \in Conns}
    \cup {ChannelEndPath(k) : k \in Chans}

ClientStates == [latest : Heights, frozen : BOOLEAN]
ConnectionEnds == [client : Clients, open : BOOLEAN]
ChannelEnds == [conn : Conns, state : {"init", "open", "closed"}]

\* What decodes at a path.
ValuesAt(p) ==
  {None} \cup CASE p[1] = "clientState" -> ClientStates
                [] p[1] = "consensusStates" -> Heights
                [] p[1] = "connections" -> ConnectionEnds
                [] p[1] = "clientConnections" -> Seq(Conns)
                [] p[1] = "channelEnds" -> ChannelEnds
                [] OTHER -> Nat

Values == {None} \cup ClientStates \cup Heights \cup ConnectionEnds
                 \cup Seq(Conns) \cup ChannelEnds \cup Nat

\* A missing entry, or tree, is none of them.
ASSUME NoneAssumption ==
  /\ None \notin ClientStates \cup ConnectionEnds \cup ChannelEnds \cup Nat
  /\ None \notin Seq(Conns)
  /\ None \notin [Paths -> Values]

Get(s, p) == StoreGet(s, Pending, p)

-----------------------------------------------------------------------------
(* The context's readers and writers.                                      *)

HostHeight(s) == CurrentHeight(s)

\* Heights are positive: in the first block the host has no height yet.
HostTimestamp(s) == IF HostHeight(s) = 0 THEN None ELSE hostCons[HostHeight(s)]

ClientState(s, c) == Get(s, ClientStatePath(c))
ConsensusState(s, c, h) == Get(s, ClientConsensusStatePath(c, h))

StoreClientState(s, c, state) == StoreSet(s, ClientStatePath(c), state)

\* Mutant: the first consensus state of a client is kept.
StoreConsensusStateOnce(s, c, h) ==
  IF \E g \in Heights : ConsensusState(s, c, g) # None
  THEN s ELSE StoreSet(s, ClientConsensusStatePath(c, h), h)
StoreConsensusState(s, c, h) == StoreSet(s, ClientConsensusStatePath(c, h), h)

StoreUpdateMeta(s, c, h, time, at) ==
  StoreSet(StoreSet(s, ClientUpdateTimePath(c, h), time),
           ClientUpdateHeightPath(c, h), at)

\* The paths that a call deletes.
DeleteConsensusState(c, h) == {ClientConsensusStatePath(c, h)}
\* Mutant: the processed height stays.
DeleteUpdateTime(c, h) == {ClientUpdateTimePath(c, h)}
DeleteUpdateMeta(c, h) == {ClientUpdateTimePath(c, h), ClientUpdateHeightPath(c, h)}

\* Mutant: the counter stays.
IncreaseNoCounter(s) == s
IncreaseClientCounter(s) ==
  StoreSet(s, NextClientSequencePath, Get(s, NextClientSequencePath) + 1)
IncreaseConnectionCounter(s) ==
  StoreSet(s, NextConnectionSequencePath, Get(s, NextConnectionSequencePath) + 1)
IncreaseChannelCounter(s) ==
  StoreSet(s, NextChannelSequencePath, Get(s, NextChannelSequencePath) + 1)

ClientConnections(s, c) ==
  IF Get(s, ClientConnectionPath(c)) = None THEN <<>> ELSE Get(s, ClientConnectionPath(c))

StoreConnection(s, k, end) == StoreSet(s, ConnectionPath(k), end)
\* Mutant: the list starts anew.
StoreOnlyConnectionToClient(s, c, k) == StoreSet(s, ClientConnectionPath(c), <<k>>)
StoreConnectionToClient(s, c, k) ==
  StoreSet(s, ClientConnectionPath(c), Append(ClientConnections(s, c), k))
StoreChannel(s, k, end) == StoreSet(s, ChannelEndPath(k), end)

ConsensusStateHeights(s, c) == {h \in Heights : ConsensusState(s, c, h) # None}

\* Keys come in the order of their strings ("0-10" before "0-3", and each
\* followed by the keys of its update meta): the place of "0-h" in that order.
LexRank(h) == IF h < 10 THEN 11 * h ELSE 11 * (h \div 10) + (h % 10) + 1

\* The first of a set of heights in the order of their keys.
FirstKey(hs) == CHOOSE h \in hs : \A g \in hs : LexRank(h) <= LexRank(g)

\* Looks for the first key whose height is below h, not above it.
NextConsensusState(s, c, h) ==
  LET below == {g \in ConsensusStateHeights(s, c) : h > g} IN
  IF below = {} THEN None ELSE FirstKey(below)

\* The key before the first one at or below h is update meta of another height
\* unless there is none: then the search has found nothing.
PrevPanics(s, c, h) ==
  LET upTo == {g \in ConsensusStateHeights(s, c) : h >= g} IN
  upTo # {} /\ FirstKey(upTo) # FirstKey(ConsensusStateHeights(s, c))

-----------------------------------------------------------------------------
(* Handlers of the ibc crate, as far as they go through the context.       *)

\* External: a client is active if it is not frozen and has a consensus
\* state for its latest height.
Active(s, c) ==
  /\ ClientState(s, c) # None
  /\ ~ClientState(s, c).frozen
  /\ ConsensusState(s, c, ClientState(s, c).latest) # None

\* External: consensus states that have expired are removed, oldest first.
Pruned(s, c, oldest) ==
  LET expired == {h \in ConsensusStateHeights(s, c) : h < oldest}
      deleted == UNION {DeleteConsensusState(c, h) \cup DeleteUpdateMeta(c, h) : h \in expired}
  IN  [s EXCEPT !.pending = [p \in Paths |-> IF p \in deleted THEN None ELSE @[p]]]

\* What creation, update and recovery store of a client.
StoreClient(s, c, state, h) ==
  StoreUpdateMeta(StoreConsensusState(StoreClientState(s, c, state), c, h),
                  c, h, HostTimestamp(s), HostHeight(s))

Init ==
  /\ ibc = StoreSet(StoreSet(StoreSet(NewStore([p \in Paths |-> None]),
             NextClientSequencePath, 0), NextConnectionSequencePath, 0),
             NextChannelSequencePath, 0)
  /\ hostCons = [h \in 1 .. MaxHeight |-> None]
  /\ pc = "idle"
  /\ halted = FALSE

\* The timestamp of host block h is h.
BeginBlock ==
  /\ pc = "idle"
  /\ CurrentHeight(ibc) < MaxHeight
  /\ hostCons' = [hostCons EXCEPT ![CurrentHeight(ibc) + 1] = CurrentHeight(ibc) + 1]
  /\ pc' = "block"
  /\ UNCHANGED <<ibc, halted>>

DeliverTx ==
  /\ pc = "block"
  /\ pc' = "tx"
  /\ UNCHANGED <<ibc, hostCons, halted>>

\* A message of the transaction succeeds and leaves the store as s.
Handled(s) ==
  /\ pc = "tx"
  /\ ~halted
  /\ ibc' = s
  /\ UNCHANGED <<hostCons, pc, halted>>

CreateClient(h) ==
  LET c == Get(ibc, NextClientSequencePath) IN
  /\ HostTimestamp(ibc) # None
  /\ c # None
  /\ c \in Clients
  /\ ClientState(ibc, c) = None
  /\ Handled(IncreaseClientCounter(
                StoreClient(ibc, c, [latest |-> h, frozen |-> FALSE], h)))

\* A header that is verified against an older consensus state of the client.
Verified(c, h) ==
  /\ HostTimestamp(ibc) # None
  /\ Active(ibc, c)
  /\ \E g \in ConsensusStateHeights(ibc, c) : g < h

\* A header for a height the client has: nothing but the removal of old states.
UpdateKnown(c, h, oldest) ==
  /\ Verified(c, h)
  /\ ConsensusState(ibc, c, h) # None
  /\ oldest <= ClientState(ibc, c).latest
  /\ Handled(Pruned(ibc, c, oldest))

\* A header is taken for misbehaviour when it is not before the consensus
\* state that next_consensus_state finds.
LooksWrong(c, h) ==
  /\ h < ClientState(ibc, c).latest
  /\ NextConsensusState(ibc, c, h) # None
  /\ h >= NextConsensusState(ibc, c, h)

\* prev_consensus_state panics: the lock on the modules is poisoned.
Halts ==
  /\ pc = "tx"
  /\ ~halted
  /\ halted' = TRUE
  /\ UNCHANGED <<ibc, hostCons, pc>>

UpdateClient(c, h, oldest) ==
  LET latest == ClientState(ibc, c).latest
      state == [latest |-> IF h > latest THEN h ELSE latest, frozen |-> FALSE]
  IN
  /\ Verified(c, h)
  /\ ConsensusState(ibc, c, h) = None
  /\ oldest <= latest
  /\ IF PrevPanics(ibc, c, h) THEN Halts
     ELSE IF LooksWrong(c, h)
     THEN Handled(StoreClientState(ibc, c, [latest |-> latest, frozen |-> TRUE]))
     ELSE Handled(StoreClient(Pruned(ibc, c, oldest), c, state, h))

\* External: evidence that the counterparty has signed two headers.
Misbehaviour(c) ==
  /\ HostTimestamp(ibc) # None
  /\ Active(ibc, c)
  /\ Handled(StoreClientState(ibc, c, [ClientState(ibc, c) EXCEPT !.frozen = TRUE]))

\* Governance::deliver of a client recovery: client c, frozen or expired, goes
\* on from where its substitute d is.  Trusting periods are not modelled: a
\* client that is not frozen may have expired at any time.
RecoverClient(c, d) ==
  /\ HostTimestamp(ibc) # None
  /\ ClientState(ibc, c) # None
  /\ Active(ibc, d)
  /\ ClientState(ibc, d).latest > ClientState(ibc, c).latest
  /\ Handled(StoreClient(ibc, c, ClientState(ibc, d), ClientState(ibc, d).latest))

\* Connection handshake on this side: INIT or TRYOPEN, then OPEN.
ConnectionOpen(c, k) ==
  /\ Active(ibc, c)
  /\ k = Get(ibc, NextConnectionSequencePath)
  /\ Handled(StoreConnection(
       StoreConnectionToClient(IncreaseConnectionCounter(ibc), c, k),
       k, [client |-> c, open |-> FALSE]))

ConnectionConfirm(k) ==
  LET end == Get(ibc, ConnectionPath(k)) IN
  /\ end # None
  /\ ~end.open
  /\ Active(ibc, end.client)
  /\ Handled(StoreConnection(ibc, k, [end EXCEPT !.open = TRUE]))

ChannelOpen(k) ==
  LET n == Get(ibc, NextChannelSequencePath) IN
  /\ Get(ibc, ConnectionPath(k)) # None
  /\ Active(ibc, Get(ibc, ConnectionPath(k)).client)
  /\ n # None
  /\ n \in Chans
  /\ Handled(IncreaseChannelCounter(
                StoreChannel(ibc, n, [conn |-> k, state |-> "init"])))

ChannelConfirm(n) ==
  LET end == Get(ibc, ChannelEndPath(n)) IN
  /\ end # None
  /\ end.state = "init"
  /\ Get(ibc, ConnectionPath(end.conn)).open
  /\ Active(ibc, Get(ibc, ConnectionPath(end.conn)).client)
  /\ Handled(StoreChannel(ibc, n, [end EXCEPT !.state = "open"]))

\* The transfer module lets its channels be closed.
ChannelClose(n) ==
  LET end == Get(ibc, ChannelEndPath(n)) IN
  /\ end # None
  /\ end.state # "closed"
  /\ Get(ibc, ConnectionPath(end.conn)).open
  /\ Active(ibc, Get(ibc, ConnectionPath(end.conn)).client)
  /\ Handled(StoreChannel(ibc, n, [end EXCEPT !.state = "closed"]))

\* Governance::deliver unwraps the decoding of a client recovery while
\* deliver_tx holds the lock on the modules: the transaction is neither applied
\* nor reset, and nothing gets past the poisoned lock.
RecoveryPanics ==
  /\ pc = "tx"
  /\ ~halted
  /\ pc' = "panicked"
  /\ UNCHANGED <<ibc, hostCons, halted>>

\* A message, of this module or of another one, fails.
MsgFails ==
  /\ pc = "tx"
  /\ ~halted
  /\ pc' = "failed"
  /\ UNCHANGED <<ibc, hostCons, halted>>

\* Mutant: back to the last block and not to the last transaction.
ResetAllToBlock ==
  /\ pc = "failed"
  /\ ibc' = IF CurrentHeight(ibc) = 0 THEN StoreReset(ibc)
            ELSE [ibc EXCEPT !.pending = RootHash(ibc)]
  /\ pc' = "block"
  /\ UNCHANGED <<hostCons, halted>>

ResetAll ==
  /\ pc = "failed"
  /\ ibc' = StoreReset(ibc)
  /\ pc' = "block"
  /\ UNCHANGED <<hostCons, halted>>

ApplyAll ==
  /\ pc = "tx"
  /\ ~halted
  /\ ibc' = StoreApply(ibc)
  /\ pc' = "block"
  /\ UNCHANGED <<hostCons, halted>>

Commit ==
  /\ pc = "block"
  /\ ibc' = StoreCommit(ibc)
  /\ pc' = "idle"
  /\ UNCHANGED <<hostCons, halted>>

Next ==
  \/ BeginBlock
  \/ DeliverTx
  \/ \E h \in Heights : CreateClient(h)
  \/ \E c \in Clients : \E h \in Heights :
       \/ \E oldest \in Heights : UpdateKnown(c, h, oldest)
       \/ \E oldest \in Heights : UpdateClient(c, h, oldest)
  \/ \E c \in Clients : Misbehaviour(c)
  \/ \E c, d \in Clients : RecoverClient(c, d)
  \/ \E k \in Conns : \E c \in Clients : ConnectionOpen(c, k)
  \/ \E k \in Conns : ConnectionConfirm(k)
  \/ \E k \in Conns : ChannelOpen(k)
  \/ \E n \in Chans : ChannelConfirm(n)
  \/ \E n \in Chans : ChannelClose(n)
  \/ RecoveryPanics
  \/ MsgFails
  \/ ResetAll
  \/ ApplyAll
  \/ Commit

Spec == Init /\ [][Next]_vars

-----------------------------------------------------------------------------
\* The states that queries, proofs and the handlers of later messages read.
States == {ibc.pending, ibc.staged} \cup {ibc.store.vec[i] : i \in 1 .. Len(ibc.store.vec)}

\* Type invariant.
TypeOK ==
  /\ \A s \in States : DOMAIN s = Paths /\ \A p \in Paths : s[p] \in ValuesAt(p)
  /\ hostCons \in [1 .. MaxHeight -> Nat \cup {None}]
  /\ pc \in {"idle", "block", "tx", "failed", "panicked"}
  /\ halted \in BOOLEAN

\* No identifier is given out twice and none is left out: what exists in a
\* state is what is below the counter of that state, also after transactions
\* were rolled back.
Below(n, counter) == counter # None /\ n < counter
IdsBelowCounters ==
  \A s \in States :
    /\ \A c \in Clients : s[ClientStatePath(c)] # None <=> Below(c, s[NextClientSequencePath])
    /\ \A k \in Conns : s[ConnectionPath(k)] # None <=> Below(k, s[NextConnectionSequencePath])
    /\ \A n \in Chans : s[ChannelEndPath(n)] # None <=> Below(n, s[NextChannelSequencePath])

\* A consensus state comes and goes with its update meta, and the processed
\* time, from which connection delays are counted, is that of the host block
\* at the processed height, although one is in the store and one is not.
MetaWithState ==
  \A s \in States : \A c \in Clients, h \in Heights :
    LET time == s[ClientUpdateTimePath(c, h)]
        at == s[ClientUpdateHeightPath(c, h)]
    IN IF s[ClientConsensusStatePath(c, h)] = None
       THEN time = None /\ at = None
       ELSE at \in 1 .. CurrentHeight(ibc) /\ time # None /\ time = hostCons[at]

\* Every client has the consensus state of its latest height, without which
\* it would count as expired for good, and none above it; headers out of order,
\* pruning and recovery never change that.
LatestStored ==
  \A s \in States : \A c \in Clients :
    s[ClientStatePath(c)] # None =>
      /\ s[ClientConsensusStatePath(c, s[ClientStatePath(c)].latest)] # None
      /\ \A h \in Heights : h > s[ClientStatePath(c)].latest =>
           s[ClientConsensusStatePath(c, h)] = None

\* The list of a client's connections names each of them once and nothing
\* else, and channels are on connections that exist.
ConnectionsListed ==
  \A s \in States :
    /\ \A c \in Clients :
         LET ids == s[ClientConnectionPath(c)] IN
         /\ ids # None => \A i, j \in 1 .. Len(ids) : i # j => ids[i] # ids[j]
         /\ \A k \in Conns :
              (s[ConnectionPath(k)] # None /\ s[ConnectionPath(k)].client = c)
                <=> (ids # None /\ \E i \in 1 .. Len(ids) : ids[i] = k)
    /\ \A n \in Chans : s[ChannelEndPath(n)] # None =>
                           s[ConnectionPath(s[ChannelEndPath(n)].conn)] # None

\* "unreachable!(), // safety - path retrieved from store"
\* (prev_consensus_state, ibc/client_contexts.rs).
PrevReachesConsensus == ~halted
=============================================================================
