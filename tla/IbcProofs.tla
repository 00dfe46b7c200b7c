------------------------------ MODULE IbcProofs ------------------------------
(***************************************************************************)
(* Proofs about modules IbcContext and IbcListings, for any number of      *)
(* clients, connections, channels, counterparty heights and blocks.        *)
(*                                                                         *)
(* A state of the store, whether pending, staged or committed, is good if  *)
(* it has its type, is numbered without gaps, and its consensus states and *)
(* connections hang together; the handlers lead from good states to good   *)
(* states, and apply, reset and commit only move states around.  A message *)
(* also extends the state it finds: what a listing shows stays, or is a    *)
(* consensus state below the latest height of its client.                  *)
(***************************************************************************)
EXTENDS IbcListings, SharedLemmas

State == {s \in [Paths -> Values] : \A p \in Paths : s[p] \in ValuesAt(p)}

Stores == StoreOf(State, {0})

\* The parts of IdsBelowCounters, for one state.
ClientIds(s) ==
  \A c \in Clients : s[ClientStatePath(c)] # None <=> Below(c, s[NextClientSequencePath])
ConnIds(s) ==
  \A k \in Conns : s[ConnectionPath(k)] # None <=> Below(k, s[NextConnectionSequencePath])
ChanIds(s) ==
  \A n \in Chans : s[ChannelEndPath(n)] # None <=> Below(n, s[NextChannelSequencePath])

\* MetaWithState, for one state, a number of blocks and their timestamps.
WithMeta(s, H, hc) ==
  \A c \in Clients, h \in Heights :
    LET time == s[ClientUpdateTimePath(c, h)]
        at == s[ClientUpdateHeightPath(c, h)]
    IN IF s[ClientConsensusStatePath(c, h)] = None
       THEN time = None /\ at = None
       ELSE at \in 1 .. H /\ time # None /\ time = hc[at]

\* LatestStored, for one state.
LatestKept(s) ==
  \A c \in Clients :
    s[ClientStatePath(c)] # None =>
      /\ s[ClientConsensusStatePath(c, s[ClientStatePath(c)].latest)] # None
      /\ \A h \in Heights : h > s[ClientStatePath(c)].latest =>
           s[ClientConsensusStatePath(c, h)] = None

\* No consensus state without its client: what makes LatestStored inductive.
NoOrphans(s) ==
  \A c \in Clients : s[ClientStatePath(c)] = None =>
    \A h \in Heights : s[ClientConsensusStatePath(c, h)] = None

\* ConnectionsListed, for one state.
Connected(s) ==
  /\ \A c \in Clients :
       LET ids == s[ClientConnectionPath(c)] IN
       /\ ids # None => \A i, j \in 1 .. Len(ids) : i # j => ids[i] # ids[j]
       /\ \A k \in Conns :
            (s[ConnectionPath(k)] # None /\ s[ConnectionPath(k)].client = c)
              <=> (ids # None /\ \E i \in 1 .. Len(ids) : ids[i] = k)
  /\ \A n \in Chans : s[ChannelEndPath(n)] # None =>
                         s[ConnectionPath(s[ChannelEndPath(n)].conn)] # None

ClientPart(s, H, hc) == ClientIds(s) /\ WithMeta(s, H, hc) /\ LatestKept(s) /\ NoOrphans(s)
ConnPart(s) == ConnIds(s) /\ ChanIds(s) /\ Connected(s)
Good(s, H, hc) == ClientPart(s, H, hc) /\ ConnPart(s)

\* The inductive invariant.
IInv ==
  /\ ibc \in Stores
  /\ hostCons \in [1 .. MaxHeight -> Nat \cup {None}]
  /\ pc \in {"idle", "block", "tx", "failed", "panicked"}
  /\ halted \in BOOLEAN
  /\ CurrentHeight(ibc) <= MaxHeight /\ (pc # "idle" => CurrentHeight(ibc) < MaxHeight)
  /\ \A s \in States : Good(s, CurrentHeight(ibc), hostCons)

-----------------------------------------------------------------------------
(* Paths and the store                                                     *)

\* Every path the handlers use is one of the store's.
LEMMA PathFacts ==
  /\ NextClientSequencePath \in Paths
  /\ NextConnectionSequencePath \in Paths
  /\ NextChannelSequencePath \in Paths
  /\ \A c \in Clients : ClientStatePath(c) \in Paths /\ ClientConnectionPath(c) \in Paths
  /\ \A c \in Clients, h \in Heights :
       /\ ClientConsensusStatePath(c, h) \in Paths
       /\ ClientUpdateTimePath(c, h) \in Paths
       /\ ClientUpdateHeightPath(c, h) \in Paths
  /\ \A k \in Conns : ConnectionPath(k) \in Paths
  /\ \A n \in Chans : ChannelEndPath(n) \in Paths
<1>1. ASSUME NEW c \in Clients PROVE ClientStatePath(c) \in Paths /\ ClientConnectionPath(c) \in Paths
  BY DEF Paths
<1>2. ASSUME NEW c \in Clients, NEW h \in Heights
      PROVE  /\ ClientConsensusStatePath(c, h) \in Paths
             /\ ClientUpdateTimePath(c, h) \in Paths
             /\ ClientUpdateHeightPath(c, h) \in Paths
  <2> DEFINE Of(d, g) == {ClientConsensusStatePath(d, g), ClientUpdateTimePath(d, g),
                          ClientUpdateHeightPath(d, g)}
  <2>1. ASSUME NEW x \in Of(c, h)
        PROVE  x \in UNION {Of(d, g) : d \in Clients, g \in Heights}
    <3>1. Of(c, h) \in {Of(d, g) : d \in Clients, g \in Heights}
      OBVIOUS
    <3> HIDE DEF Of
    <3> QED BY <2>1, <3>1
  <2>2. ASSUME NEW x \in Of(c, h) PROVE x \in Paths
    BY <2>1, <2>2 DEF Paths
  <2> QED BY <2>2
<1>3. ASSUME NEW k \in Conns PROVE ConnectionPath(k) \in Paths
  BY DEF Paths
<1>4. ASSUME NEW n \in Chans PROVE ChannelEndPath(n) \in Paths
  BY DEF Paths
<1>5. /\ NextClientSequencePath \in Paths
      /\ NextConnectionSequencePath \in Paths
      /\ NextChannelSequencePath \in Paths
  BY DEF Paths
<1> QED BY <1>1, <1>2, <1>3, <1>4, <1>5

\* What decodes at the paths of each kind.
LEMMA ValueFacts ==
  /\ \A p \in Paths : None \in ValuesAt(p) /\ ValuesAt(p) \subseteq Values
  /\ ValuesAt(NextClientSequencePath) = Nat \cup {None}
  /\ ValuesAt(NextConnectionSequencePath) = Nat \cup {None}
  /\ ValuesAt(NextChannelSequencePath) = Nat \cup {None}
  /\ \A c : ValuesAt(ClientStatePath(c)) = ClientStates \cup {None}
  /\ \A c : ValuesAt(ClientConnectionPath(c)) = Seq(Conns) \cup {None}
  /\ \A c, h : ValuesAt(ClientConsensusStatePath(c, h)) = Heights \cup {None}
  /\ \A c, h : ValuesAt(ClientUpdateTimePath(c, h)) = Nat \cup {None}
  /\ \A c, h : ValuesAt(ClientUpdateHeightPath(c, h)) = Nat \cup {None}
  /\ \A k : ValuesAt(ConnectionPath(k)) = ConnectionEnds \cup {None}
  /\ \A n : ValuesAt(ChannelEndPath(n)) = ChannelEnds \cup {None}
<1>1. ASSUME NEW p \in Paths PROVE None \in ValuesAt(p) /\ ValuesAt(p) \subseteq Values
  <2> DEFINE Rest == CASE p[1] = "clientState" -> ClientStates
                [] p[1] = "consensusStates" -> Heights
                [] p[1] = "connections" -> ConnectionEnds
                [] p[1] = "clientConnections" -> Seq(Conns)
                [] p[1] = "channelEnds" -> ChannelEnds
                [] OTHER -> Nat
  <2>1. Rest \in {ClientStates, Heights, ConnectionEnds, Seq(Conns), ChannelEnds, Nat}
    OBVIOUS
  <2>2. ValuesAt(p) = {None} \cup Rest
    BY DEF ValuesAt
  <2> HIDE DEF Rest
  <2> QED BY <2>1, <2>2 DEF Values
<1>2. /\ ValuesAt(NextClientSequencePath) = Nat \cup {None}
      /\ ValuesAt(NextConnectionSequencePath) = Nat \cup {None}
      /\ ValuesAt(NextChannelSequencePath) = Nat \cup {None}
  BY DEF ValuesAt, NextClientSequencePath, NextConnectionSequencePath, NextChannelSequencePath
<1>3. ASSUME NEW c
      PROVE  /\ ValuesAt(ClientStatePath(c)) = ClientStates \cup {None}
             /\ ValuesAt(ClientConnectionPath(c)) = Seq(Conns) \cup {None}
             /\ ValuesAt(ConnectionPath(c)) = ConnectionEnds \cup {None}
             /\ ValuesAt(ChannelEndPath(c)) = ChannelEnds \cup {None}
  BY DEF ValuesAt, ClientStatePath, ClientConnectionPath, ConnectionPath, ChannelEndPath
<1>4. ASSUME NEW c, NEW h
      PROVE  /\ ValuesAt(ClientConsensusStatePath(c, h)) = Heights \cup {None}
             /\ ValuesAt(ClientUpdateTimePath(c, h)) = Nat \cup {None}
             /\ ValuesAt(ClientUpdateHeightPath(c, h)) = Nat \cup {None}
  BY DEF ValuesAt, ClientConsensusStatePath, ClientUpdateTimePath, ClientUpdateHeightPath
<1> QED BY <1>1, <1>2, <1>3, <1>4

\* Paths of different kinds, or of different things, differ.
LEMMA PathsDiffer ==
  ASSUME NEW c, NEW h, NEW d, NEW g
  PROVE  /\ ClientStatePath(d) = ClientStatePath(c) <=> d = c
         /\ ClientConnectionPath(d) = ClientConnectionPath(c) <=> d = c
         /\ ConnectionPath(d) = ConnectionPath(c) <=> d = c
         /\ ChannelEndPath(d) = ChannelEndPath(c) <=> d = c
         /\ ClientConsensusStatePath(d, g) = ClientConsensusStatePath(c, h) <=> d = c /\ g = h
         /\ ClientUpdateTimePath(d, g) = ClientUpdateTimePath(c, h) <=> d = c /\ g = h
         /\ ClientUpdateHeightPath(d, g) = ClientUpdateHeightPath(c, h) <=> d = c /\ g = h
<1>1. ClientStatePath(d) = ClientStatePath(c) <=> d = c
  BY DEF ClientStatePath
<1>2. ClientConnectionPath(d) = ClientConnectionPath(c) <=> d = c
  BY DEF ClientConnectionPath
<1>3. ConnectionPath(d) = ConnectionPath(c) <=> d = c
  BY DEF ConnectionPath
<1>4. ChannelEndPath(d) = ChannelEndPath(c) <=> d = c
  BY DEF ChannelEndPath
<1>5. ClientConsensusStatePath(d, g) = ClientConsensusStatePath(c, h) <=> d = c /\ g = h
  BY DEF ClientConsensusStatePath
<1>6. ClientUpdateTimePath(d, g) = ClientUpdateTimePath(c, h) <=> d = c /\ g = h
  BY DEF ClientUpdateTimePath
<1>7. ClientUpdateHeightPath(d, g) = ClientUpdateHeightPath(c, h) <=> d = c /\ g = h
  BY DEF ClientUpdateHeightPath
<1> QED BY <1>1, <1>2, <1>3, <1>4, <1>5, <1>6, <1>7

Kind(p) == p[1]

\* The kind of each path.
LEMMA Kinds ==
  ASSUME NEW c, NEW h
  PROVE  /\ Kind(NextClientSequencePath) = "nextClientSequence"
         /\ Kind(NextConnectionSequencePath) = "nextConnectionSequence"
         /\ Kind(NextChannelSequencePath) = "nextChannelSequence"
         /\ Kind(ClientStatePath(c)) = "clientState"
         /\ Kind(ClientConsensusStatePath(c, h)) = "consensusStates"
         /\ Kind(ClientUpdateTimePath(c, h)) = "processedTime"
         /\ Kind(ClientUpdateHeightPath(c, h)) = "processedHeight"
         /\ Kind(ConnectionPath(c)) = "connections"
         /\ Kind(ClientConnectionPath(c)) = "clientConnections"
         /\ Kind(ChannelEndPath(c)) = "channelEnds"
  BY DEF Kind, NextClientSequencePath, NextConnectionSequencePath, NextChannelSequencePath,
         ClientStatePath, ClientConsensusStatePath, ClientUpdateTimePath,
         ClientUpdateHeightPath, ConnectionPath, ClientConnectionPath, ChannelEndPath

\* What a handler reads is the entry of the pending state.
LEMMA GetLemma ==
  ASSUME NEW s \in Stores, NEW p \in Paths
  PROVE  Get(s, p) = s.pending[p] /\ s.pending[p] \in ValuesAt(p) /\ s.pending \in State
<1>1. s.pending \in State /\ s.pending \in [Paths -> Values]
  BY DEF Stores, StoreOf, State
<1>2. s.pending # None
  BY <1>1, NoneAssumption
<1>3. GetState(s, Pending) = s.pending
  BY DEF GetState, Pending
<1> QED BY <1>1, <1>2, <1>3 DEF Get, StoreGet, State

\* A write changes the entry of the pending state and nothing else.
LEMMA SetLemma ==
  ASSUME NEW s \in Stores, NEW p \in Paths, NEW v \in ValuesAt(p)
  PROVE  /\ StoreSet(s, p, v) \in Stores
         /\ StoreSet(s, p, v).store = s.store
         /\ StoreSet(s, p, v).staged = s.staged
         /\ \A q \in Paths : StoreSet(s, p, v).pending[q] = IF q = p THEN v ELSE s.pending[q]
<1>1. s.pending \in State /\ s.staged \in State /\ s.store \in VecOf(State, {0})
  BY DEF Stores, StoreOf
<1>2. v \in Values
  BY ValueFacts
<1>3. [s.pending EXCEPT ![p] = v] \in State
  BY <1>1, <1>2 DEF State
<1>4. StoreSet(s, p, v) = [s EXCEPT !.pending = [s.pending EXCEPT ![p] = v]]
  BY DEF StoreSet, Stores, StoreOf
<1>5. s \in [store : VecOf(State, {0}), staged : State, pending : State]
  BY DEF Stores, StoreOf
<1>6. /\ StoreSet(s, p, v) \in Stores
      /\ StoreSet(s, p, v).store = s.store
      /\ StoreSet(s, p, v).staged = s.staged
      /\ StoreSet(s, p, v).pending = [s.pending EXCEPT ![p] = v]
  BY <1>3, <1>4, <1>5 DEF Stores, StoreOf
<1>7. ASSUME NEW q \in Paths
      PROVE  StoreSet(s, p, v).pending[q] = IF q = p THEN v ELSE s.pending[q]
  BY <1>1, <1>6 DEF State
<1> QED BY <1>6, <1>7
-----------------------------------------------------------------------------
(* The handlers of clients                                                 *)

\* The parts of a state that only the handlers of connections and channels write.
SameConn(x, y) ==
  /\ y[NextConnectionSequencePath] = x[NextConnectionSequencePath]
  /\ y[NextChannelSequencePath] = x[NextChannelSequencePath]
  /\ \A c \in Clients : y[ClientConnectionPath(c)] = x[ClientConnectionPath(c)]
  /\ \A k \in Conns : y[ConnectionPath(k)] = x[ConnectionPath(k)]
  /\ \A n \in Chans : y[ChannelEndPath(n)] = x[ChannelEndPath(n)]

\* store_client_state: one entry of one client.
LEMMA ClientStateReads ==
  ASSUME NEW s \in Stores, NEW c \in Clients, NEW state \in ClientStates
  PROVE  LET t == StoreClientState(s, c, state) IN
         /\ t \in Stores /\ t.store = s.store /\ t.staged = s.staged
         /\ t.pending[NextClientSequencePath] = s.pending[NextClientSequencePath]
         /\ \A d \in Clients : t.pending[ClientStatePath(d)] =
                                 IF d = c THEN state ELSE s.pending[ClientStatePath(d)]
         /\ \A d \in Clients, g \in Heights :
              /\ t.pending[ClientConsensusStatePath(d, g)] = s.pending[ClientConsensusStatePath(d, g)]
              /\ t.pending[ClientUpdateTimePath(d, g)] = s.pending[ClientUpdateTimePath(d, g)]
              /\ t.pending[ClientUpdateHeightPath(d, g)] = s.pending[ClientUpdateHeightPath(d, g)]
         /\ SameConn(s.pending, t.pending)
<1> DEFINE t == StoreClientState(s, c, state)
<1>1. ClientStatePath(c) \in Paths /\ state \in ValuesAt(ClientStatePath(c))
  BY PathFacts, ValueFacts
<1>2. /\ t \in Stores /\ t.store = s.store /\ t.staged = s.staged
      /\ \A q \in Paths : t.pending[q] = IF q = ClientStatePath(c) THEN state ELSE s.pending[q]
  BY <1>1, SetLemma DEF StoreClientState
<1> HIDE DEF t
<1>3. \A d \in Clients : t.pending[ClientStatePath(d)] =
                           IF d = c THEN state ELSE s.pending[ClientStatePath(d)]
  BY <1>2, PathFacts, PathsDiffer
<1>4. ASSUME NEW q \in Paths, Kind(q) # "clientState" PROVE t.pending[q] = s.pending[q]
  BY <1>2, <1>4, Kinds
<1>5. SameConn(s.pending, t.pending)
  BY <1>4, PathFacts, Kinds DEF SameConn
<1>6. \A d \in Clients, g \in Heights :
        /\ t.pending[ClientConsensusStatePath(d, g)] = s.pending[ClientConsensusStatePath(d, g)]
        /\ t.pending[ClientUpdateTimePath(d, g)] = s.pending[ClientUpdateTimePath(d, g)]
        /\ t.pending[ClientUpdateHeightPath(d, g)] = s.pending[ClientUpdateHeightPath(d, g)]
  BY <1>4, PathFacts, Kinds
<1>7. t.pending[NextClientSequencePath] = s.pending[NextClientSequencePath]
  BY <1>4, PathFacts, Kinds
<1> QED BY <1>2, <1>3, <1>5, <1>6, <1>7 DEF t

\* The entries that the creation, an update or the recovery of a client writes.
LEMMA ClientReads ==
  ASSUME NEW s \in Stores, NEW c \in Clients, NEW state \in ClientStates, NEW h \in Heights,
         HostTimestamp(s) \in Nat, HostHeight(s) \in Nat
  PROVE  LET t == StoreClient(s, c, state, h) IN
         /\ t \in Stores /\ t.store = s.store /\ t.staged = s.staged
         /\ t.pending[NextClientSequencePath] = s.pending[NextClientSequencePath]
         /\ \A d \in Clients : t.pending[ClientStatePath(d)] =
                                 IF d = c THEN state ELSE s.pending[ClientStatePath(d)]
         /\ \A d \in Clients, g \in Heights :
              /\ t.pending[ClientConsensusStatePath(d, g)] =
                   IF d = c /\ g = h THEN h ELSE s.pending[ClientConsensusStatePath(d, g)]
              /\ t.pending[ClientUpdateTimePath(d, g)] =
                   IF d = c /\ g = h THEN HostTimestamp(s) ELSE s.pending[ClientUpdateTimePath(d, g)]
              /\ t.pending[ClientUpdateHeightPath(d, g)] =
                   IF d = c /\ g = h THEN HostHeight(s) ELSE s.pending[ClientUpdateHeightPath(d, g)]
         /\ SameConn(s.pending, t.pending)
<1> DEFINE s1 == StoreClientState(s, c, state)
           s2 == StoreConsensusState(s1, c, h)
           s3 == StoreSet(s2, ClientUpdateTimePath(c, h), HostTimestamp(s))
           t == StoreClient(s, c, state, h)
<1>0. t = StoreSet(s3, ClientUpdateHeightPath(c, h), HostHeight(s))
  BY DEF StoreClient, StoreUpdateMeta
<1>1. /\ ClientConsensusStatePath(c, h) \in Paths /\ h \in ValuesAt(ClientConsensusStatePath(c, h))
      /\ ClientUpdateTimePath(c, h) \in Paths
      /\ HostTimestamp(s) \in ValuesAt(ClientUpdateTimePath(c, h))
      /\ ClientUpdateHeightPath(c, h) \in Paths
      /\ HostHeight(s) \in ValuesAt(ClientUpdateHeightPath(c, h))
      /\ ClientStatePath(c) \in Paths /\ state \in ValuesAt(ClientStatePath(c))
  BY PathFacts, ValueFacts
<1>2. /\ s1 \in Stores /\ s1.store = s.store /\ s1.staged = s.staged
      /\ \A q \in Paths : s1.pending[q] = IF q = ClientStatePath(c) THEN state ELSE s.pending[q]
  BY <1>1, SetLemma DEF StoreClientState
<1> HIDE DEF s1
<1>3. /\ s2 \in Stores /\ s2.store = s1.store /\ s2.staged = s1.staged
      /\ \A q \in Paths : s2.pending[q] =
           IF q = ClientConsensusStatePath(c, h) THEN h ELSE s1.pending[q]
  BY <1>1, <1>2, SetLemma DEF StoreConsensusState
<1> HIDE DEF s2
<1>4. /\ s3 \in Stores /\ s3.store = s2.store /\ s3.staged = s2.staged
      /\ \A q \in Paths : s3.pending[q] =
           IF q = ClientUpdateTimePath(c, h) THEN HostTimestamp(s) ELSE s2.pending[q]
  BY <1>1, <1>3, SetLemma
<1> HIDE DEF s3
<1>5. /\ t \in Stores /\ t.store = s3.store /\ t.staged = s3.staged
      /\ \A q \in Paths : t.pending[q] =
           IF q = ClientUpdateHeightPath(c, h) THEN HostHeight(s) ELSE s3.pending[q]
  BY <1>0, <1>1, <1>4, SetLemma
<1> HIDE DEF t
<1>6. ASSUME NEW q \in Paths,
             Kind(q) \notin {"clientState", "consensusStates", "processedTime", "processedHeight"}
      PROVE  t.pending[q] = s.pending[q]
  BY <1>2, <1>3, <1>4, <1>5, <1>6, Kinds
<1>7. \A d \in Clients : t.pending[ClientStatePath(d)] =
                           IF d = c THEN state ELSE s.pending[ClientStatePath(d)]
  BY <1>2, <1>3, <1>4, <1>5, PathFacts, PathsDiffer, Kinds
<1>8. ASSUME NEW d \in Clients, NEW g \in Heights
      PROVE  t.pending[ClientConsensusStatePath(d, g)] =
               IF d = c /\ g = h THEN h ELSE s.pending[ClientConsensusStatePath(d, g)]
  BY <1>2, <1>3, <1>4, <1>5, PathFacts, PathsDiffer, Kinds
<1>9. ASSUME NEW d \in Clients, NEW g \in Heights
      PROVE  t.pending[ClientUpdateTimePath(d, g)] =
               IF d = c /\ g = h THEN HostTimestamp(s) ELSE s.pending[ClientUpdateTimePath(d, g)]
  BY <1>2, <1>3, <1>4, <1>5, PathFacts, PathsDiffer, Kinds
<1>10. ASSUME NEW d \in Clients, NEW g \in Heights
      PROVE  t.pending[ClientUpdateHeightPath(d, g)] =
               IF d = c /\ g = h THEN HostHeight(s) ELSE s.pending[ClientUpdateHeightPath(d, g)]
  BY <1>2, <1>3, <1>4, <1>5, PathFacts, PathsDiffer, Kinds
<1>11. SameConn(s.pending, t.pending)
  BY <1>6, PathFacts, Kinds DEF SameConn
<1>12. t.pending[NextClientSequencePath] = s.pending[NextClientSequencePath]
  BY <1>6, PathFacts, Kinds
<1> QED BY <1>2, <1>3, <1>4, <1>5, <1>7, <1>8, <1>9, <1>10, <1>11, <1>12 DEF t

\* Pruning deletes the old consensus states of one client with their meta.
LEMMA PrunedReads ==
  ASSUME NEW s \in Stores, NEW c \in Clients, NEW oldest
  PROVE  LET t == Pruned(s, c, oldest)
             Gone(d, g) == d = c /\ g < oldest /\ s.pending[ClientConsensusStatePath(c, g)] # None
         IN
         /\ t \in Stores /\ t.store = s.store /\ t.staged = s.staged
         /\ t.pending[NextClientSequencePath] = s.pending[NextClientSequencePath]
         /\ \A d \in Clients : t.pending[ClientStatePath(d)] = s.pending[ClientStatePath(d)]
         /\ \A d \in Clients, g \in Heights :
              /\ t.pending[ClientConsensusStatePath(d, g)] =
                   IF Gone(d, g) THEN None ELSE s.pending[ClientConsensusStatePath(d, g)]
              /\ t.pending[ClientUpdateTimePath(d, g)] =
                   IF Gone(d, g) THEN None ELSE s.pending[ClientUpdateTimePath(d, g)]
              /\ t.pending[ClientUpdateHeightPath(d, g)] =
                   IF Gone(d, g) THEN None ELSE s.pending[ClientUpdateHeightPath(d, g)]
         /\ SameConn(s.pending, t.pending)
<1> DEFINE t == Pruned(s, c, oldest)
           Gone(d, g) == d = c /\ g < oldest /\ s.pending[ClientConsensusStatePath(c, g)] # None
           Three(g) == {ClientConsensusStatePath(c, g), ClientUpdateTimePath(c, g),
                        ClientUpdateHeightPath(c, g)}
           Deleted(q) == \E g \in Heights : Gone(c, g) /\ q \in Three(g)
<1>1. s.pending \in State /\ s.staged \in State /\ s.store \in VecOf(State, {0})
      /\ s \in [store : VecOf(State, {0}), staged : State, pending : State]
  BY DEF Stores, StoreOf
<1>2. \A g \in Heights : g \in ConsensusStateHeights(s, c) <=>
                            s.pending[ClientConsensusStatePath(c, g)] # None
  BY GetLemma, PathFacts DEF ConsensusStateHeights, ConsensusState
<1> DEFINE expired == {h \in ConsensusStateHeights(s, c) : h < oldest}
           deleted == UNION {DeleteConsensusState(c, h) \cup DeleteUpdateMeta(c, h) : h \in expired}
           new == [p \in Paths |-> IF p \in deleted THEN None ELSE s.pending[p]]
<1>3. \A g : g \in expired <=> g \in Heights /\ Gone(c, g)
  BY <1>2 DEF ConsensusStateHeights
<1> HIDE DEF expired
<1>4. ASSUME NEW q PROVE q \in deleted <=> Deleted(q)
  <2>1. q \in deleted <=>
          \E h \in expired : q \in DeleteConsensusState(c, h) \cup DeleteUpdateMeta(c, h)
    OBVIOUS
  <2>2. \A h : DeleteConsensusState(c, h) \cup DeleteUpdateMeta(c, h) = Three(h)
    BY DEF DeleteConsensusState, DeleteUpdateMeta
  <2> HIDE DEF deleted, Three, Gone
  <2> QED BY <1>3, <2>1, <2>2
<1>5. t = [s EXCEPT !.pending = new]
  <2>1. t = [s EXCEPT !.pending = [p \in Paths |-> IF p \in deleted THEN None ELSE @[p]]]
    BY DEF Pruned, expired
  <2> HIDE DEF t, deleted
  <2> QED BY <1>1, <2>1
<1> HIDE DEF t, deleted
<1>6. new \in State
  BY <1>1, ValueFacts DEF State
<1>7. t \in Stores /\ t.store = s.store /\ t.staged = s.staged /\ t.pending = new
  <2> HIDE DEF new
  <2> QED BY <1>1, <1>5, <1>6 DEF Stores, StoreOf
<1>8. \A q \in Paths : t.pending[q] = IF Deleted(q) THEN None ELSE s.pending[q]
  <2> HIDE DEF Deleted
  <2> QED BY <1>4, <1>7
<1> HIDE DEF new, Gone
<1>9. ASSUME NEW q \in Paths,
             Kind(q) \notin {"consensusStates", "processedTime", "processedHeight"}
      PROVE  t.pending[q] = s.pending[q]
  BY <1>8, <1>9, Kinds
<1>10. ASSUME NEW d \in Clients, NEW g \in Heights
      PROVE  /\ t.pending[ClientConsensusStatePath(d, g)] =
                  IF Gone(d, g) THEN None ELSE s.pending[ClientConsensusStatePath(d, g)]
             /\ t.pending[ClientUpdateTimePath(d, g)] =
                  IF Gone(d, g) THEN None ELSE s.pending[ClientUpdateTimePath(d, g)]
             /\ t.pending[ClientUpdateHeightPath(d, g)] =
                  IF Gone(d, g) THEN None ELSE s.pending[ClientUpdateHeightPath(d, g)]
  <2>1. Gone(d, g) => d = c
    BY DEF Gone
  <2>2. Deleted(ClientConsensusStatePath(d, g)) <=> Gone(d, g)
    BY <2>1, PathsDiffer, Kinds
  <2>3. Deleted(ClientUpdateTimePath(d, g)) <=> Gone(d, g)
    BY <2>1, PathsDiffer, Kinds
  <2>4. Deleted(ClientUpdateHeightPath(d, g)) <=> Gone(d, g)
    BY <2>1, PathsDiffer, Kinds
  <2> HIDE DEF Deleted
  <2> QED BY <1>8, <2>2, <2>3, <2>4, PathFacts
<1>11. SameConn(s.pending, t.pending)
  BY <1>9, PathFacts, Kinds DEF SameConn
<1>12. /\ t.pending[NextClientSequencePath] = s.pending[NextClientSequencePath]
       /\ \A d \in Clients : t.pending[ClientStatePath(d)] = s.pending[ClientStatePath(d)]
  BY <1>9, PathFacts, Kinds
<1> QED BY <1>7, <1>10, <1>11, <1>12 DEF t, Gone
\* Counterparty heights are numbers.
LEMMA HeightFacts == \A h \in Heights : h \in Nat /\ h # None
<1> SUFFICES ASSUME NEW h \in Heights PROVE h \in Nat /\ h # None
  OBVIOUS
<1>1. h \in Nat
  BY IbcAssumption
<1> QED BY <1>1, NoneAssumption

\* What connections and channels need does not change with clients.
LEMMA ConnPartKept ==
  ASSUME NEW x, NEW y, x \in State, ConnPart(x), SameConn(x, y)
  PROVE  ConnPart(y)
<1>1. ConnIds(y) /\ ChanIds(y)
  BY DEF ConnPart, ConnIds, ChanIds, SameConn
<1>2. \A n \in Chans : x[ChannelEndPath(n)] # None => x[ChannelEndPath(n)].conn \in Conns
  BY PathFacts, ValueFacts DEF State, ChannelEnds
<1>3. Connected(y)
  BY <1>2 DEF ConnPart, Connected, SameConn
<1> QED BY <1>1, <1>3 DEF ConnPart

\* A client's new state, with a consensus state or without a new one, keeps
\* what clients need if the state's height is that of the newest consensus state.
LEMMA ClientPartStored ==
  ASSUME NEW x, NEW y, x \in State, y \in State, NEW H \in Nat, NEW hc,
         NEW c \in Clients, NEW state \in ClientStates, NEW h \in Heights,
         NEW at \in 1 .. H, NEW time \in Nat, time = hc[at],
         WithMeta(x, H, hc), LatestKept(x), NoOrphans(x),
         h <= state.latest,
         h = state.latest \/ x[ClientConsensusStatePath(c, state.latest)] # None,
         \A g \in Heights : g > state.latest => x[ClientConsensusStatePath(c, g)] = None,
         \A d \in Clients : y[ClientStatePath(d)] =
                              IF d = c THEN state ELSE x[ClientStatePath(d)],
         \A d \in Clients, g \in Heights :
           /\ y[ClientConsensusStatePath(d, g)] =
                IF d = c /\ g = h THEN h ELSE x[ClientConsensusStatePath(d, g)]
           /\ y[ClientUpdateTimePath(d, g)] =
                IF d = c /\ g = h THEN time ELSE x[ClientUpdateTimePath(d, g)]
           /\ y[ClientUpdateHeightPath(d, g)] =
                IF d = c /\ g = h THEN at ELSE x[ClientUpdateHeightPath(d, g)]
  PROVE  WithMeta(y, H, hc) /\ LatestKept(y) /\ NoOrphans(y)
<1>1. state # None /\ state.latest \in Heights /\ h # None /\ time # None /\ h \in Int /\ state.latest \in Int
  <2>1. state # None
    BY NoneAssumption
  <2>2. state.latest \in Heights
    BY DEF ClientStates
  <2>3. h \in Nat /\ state.latest \in Nat
    BY <2>2, HeightFacts
  <2> QED BY <2>1, <2>2, <2>3, HeightFacts, NoneAssumption
<1>2. WithMeta(y, H, hc)
  BY <1>1 DEF WithMeta
<1>3. ASSUME NEW d \in Clients, y[ClientStatePath(d)] # None
      PROVE  /\ y[ClientConsensusStatePath(d, y[ClientStatePath(d)].latest)] # None
             /\ \A g \in Heights : g > y[ClientStatePath(d)].latest =>
                  y[ClientConsensusStatePath(d, g)] = None
  <2>1. CASE d = c
    BY <1>1, <2>1, IbcAssumption
  <2>2. CASE d # c
    <3>1. y[ClientStatePath(d)] \in ClientStates
      BY <1>3, PathFacts, ValueFacts DEF State
    <3>2. y[ClientStatePath(d)].latest \in Heights
      BY <3>1 DEF ClientStates
    <3> QED BY <1>3, <2>2, <3>2 DEF LatestKept
  <2> QED BY <2>1, <2>2
<1>4. LatestKept(y)
  BY <1>3 DEF LatestKept
<1>5. NoOrphans(y)
  BY <1>1 DEF NoOrphans
<1> QED BY <1>2, <1>4, <1>5

\* A client's state may change as long as its latest height does not.
LEMMA ClientPartFrozen ==
  ASSUME NEW x, NEW y, x \in State, NEW H, NEW hc, NEW c \in Clients, NEW state \in ClientStates,
         WithMeta(x, H, hc), LatestKept(x), NoOrphans(x),
         x[ClientStatePath(c)] # None, state.latest = x[ClientStatePath(c)].latest,
         \A d \in Clients : y[ClientStatePath(d)] =
                              IF d = c THEN state ELSE x[ClientStatePath(d)],
         \A d \in Clients, g \in Heights :
           /\ y[ClientConsensusStatePath(d, g)] = x[ClientConsensusStatePath(d, g)]
           /\ y[ClientUpdateTimePath(d, g)] = x[ClientUpdateTimePath(d, g)]
           /\ y[ClientUpdateHeightPath(d, g)] = x[ClientUpdateHeightPath(d, g)]
  PROVE  WithMeta(y, H, hc) /\ LatestKept(y) /\ NoOrphans(y)
<1>1. state # None
  BY NoneAssumption
<1>2. \A d \in Clients : x[ClientStatePath(d)] # None => x[ClientStatePath(d)].latest \in Heights
  BY PathFacts, ValueFacts DEF State, ClientStates
<1>3. WithMeta(y, H, hc)
  BY DEF WithMeta
<1>4. LatestKept(y)
  BY <1>1, <1>2 DEF LatestKept
<1>5. NoOrphans(y)
  BY <1>1 DEF NoOrphans
<1> QED BY <1>3, <1>4, <1>5

\* Pruning below the latest height of a client keeps what clients need.
LEMMA ClientPartPruned ==
  ASSUME NEW x, NEW y, x \in State, NEW H, NEW hc, NEW c \in Clients, NEW oldest \in Heights,
         WithMeta(x, H, hc), LatestKept(x), NoOrphans(x),
         x[ClientStatePath(c)] # None => oldest <= x[ClientStatePath(c)].latest,
         \A d \in Clients : y[ClientStatePath(d)] = x[ClientStatePath(d)],
         \A d \in Clients, g \in Heights :
           LET gone == d = c /\ g < oldest /\ x[ClientConsensusStatePath(c, g)] # None IN
           /\ y[ClientConsensusStatePath(d, g)] =
                IF gone THEN None ELSE x[ClientConsensusStatePath(d, g)]
           /\ y[ClientUpdateTimePath(d, g)] =
                IF gone THEN None ELSE x[ClientUpdateTimePath(d, g)]
           /\ y[ClientUpdateHeightPath(d, g)] =
                IF gone THEN None ELSE x[ClientUpdateHeightPath(d, g)]
  PROVE  WithMeta(y, H, hc) /\ LatestKept(y) /\ NoOrphans(y)
<1>1. \A d \in Clients : x[ClientStatePath(d)] # None => x[ClientStatePath(d)].latest \in Heights
  BY PathFacts, ValueFacts DEF State, ClientStates
<1>2. WithMeta(y, H, hc)
  <2> SUFFICES ASSUME NEW d \in Clients, NEW g \in Heights
               PROVE  IF y[ClientConsensusStatePath(d, g)] = None
                      THEN y[ClientUpdateTimePath(d, g)] = None /\ y[ClientUpdateHeightPath(d, g)] = None
                      ELSE /\ y[ClientUpdateHeightPath(d, g)] \in 1 .. H
                           /\ y[ClientUpdateTimePath(d, g)] # None
                           /\ y[ClientUpdateTimePath(d, g)] = hc[y[ClientUpdateHeightPath(d, g)]]
    BY DEF WithMeta
  <2> QED BY DEF WithMeta
<1>3. \A g \in Heights : g \in Int
  BY IbcAssumption
<1>4. ASSUME NEW d \in Clients, y[ClientStatePath(d)] # None
      PROVE  /\ y[ClientConsensusStatePath(d, y[ClientStatePath(d)].latest)] # None
             /\ \A g \in Heights : g > y[ClientStatePath(d)].latest =>
                  y[ClientConsensusStatePath(d, g)] = None
  <2>1. x[ClientStatePath(d)].latest \in Heights
    BY <1>1, <1>4
  <2>2. d = c => ~(x[ClientStatePath(d)].latest < oldest)
    BY <1>3, <1>4, <2>1
  <2> QED BY <1>4, <2>1, <2>2 DEF LatestKept
<1>5. NoOrphans(y)
  BY DEF NoOrphans
<1> QED BY <1>2, <1>4, <1>5 DEF LatestKept
-----------------------------------------------------------------------------
(* The handlers of connections and channels                                *)

\* The parts of a state that only the handlers of clients write.
SameClient(x, y) ==
  /\ y[NextClientSequencePath] = x[NextClientSequencePath]
  /\ \A c \in Clients : y[ClientStatePath(c)] = x[ClientStatePath(c)]
  /\ \A c \in Clients, h \in Heights :
       /\ y[ClientConsensusStatePath(c, h)] = x[ClientConsensusStatePath(c, h)]
       /\ y[ClientUpdateTimePath(c, h)] = x[ClientUpdateTimePath(c, h)]
       /\ y[ClientUpdateHeightPath(c, h)] = x[ClientUpdateHeightPath(c, h)]

\* What clients need does not change with connections and channels.
LEMMA ClientPartKept ==
  ASSUME NEW x, NEW y, x \in State, NEW H, NEW hc, ClientPart(x, H, hc), SameClient(x, y)
  PROVE  ClientPart(y, H, hc)
<1>1. \A c \in Clients : x[ClientStatePath(c)] # None => x[ClientStatePath(c)].latest \in Heights
  BY PathFacts, ValueFacts DEF State, ClientStates
<1>2. ClientIds(y)
  BY DEF ClientPart, ClientIds, SameClient
<1>3. WithMeta(y, H, hc)
  BY DEF ClientPart, WithMeta, SameClient
<1>4. LatestKept(y) /\ NoOrphans(y)
  BY <1>1 DEF ClientPart, LatestKept, NoOrphans, SameClient
<1> QED BY <1>2, <1>3, <1>4 DEF ClientPart

\* A write to an entry of another kind leaves the parts of clients alone.
ConnKinds == {"nextConnectionSequence", "nextChannelSequence", "connections",
              "clientConnections", "channelEnds"}
LEMMA SameClientKinds ==
  ASSUME NEW x, NEW y, \A q \in Paths : Kind(q) \notin ConnKinds => y[q] = x[q]
  PROVE  SameClient(x, y)
  BY PathFacts, Kinds DEF SameClient, ConnKinds

\* What conn_open_init and conn_open_try write.
LEMMA OpenReads ==
  ASSUME NEW s \in Stores, NEW c \in Clients, NEW k \in Conns, NEW end \in ConnectionEnds,
         Get(s, NextConnectionSequencePath) = k
  PROVE  LET t == StoreConnection(StoreConnectionToClient(IncreaseConnectionCounter(s), c, k), k, end)
             list == IF s.pending[ClientConnectionPath(c)] = None THEN <<>>
                     ELSE s.pending[ClientConnectionPath(c)]
         IN
         /\ t \in Stores /\ t.store = s.store /\ t.staged = s.staged
         /\ SameClient(s.pending, t.pending)
         /\ t.pending[NextConnectionSequencePath] = k + 1
         /\ t.pending[NextChannelSequencePath] = s.pending[NextChannelSequencePath]
         /\ list \in Seq(Conns)
         /\ \A d \in Clients : t.pending[ClientConnectionPath(d)] =
              IF d = c THEN Append(list, k) ELSE s.pending[ClientConnectionPath(d)]
         /\ \A j \in Conns : t.pending[ConnectionPath(j)] =
              IF j = k THEN end ELSE s.pending[ConnectionPath(j)]
         /\ \A n \in Chans : t.pending[ChannelEndPath(n)] = s.pending[ChannelEndPath(n)]
<1> DEFINE s1 == IncreaseConnectionCounter(s)
           s2 == StoreConnectionToClient(s1, c, k)
           t == StoreConnection(s2, k, end)
           list == IF s.pending[ClientConnectionPath(c)] = None THEN <<>>
                   ELSE s.pending[ClientConnectionPath(c)]
<1>1. k + 1 \in Nat /\ k + 1 \in ValuesAt(NextConnectionSequencePath)
  BY ValueFacts, IbcAssumption DEF Conns
<1>2. /\ s1 \in Stores /\ s1.store = s.store /\ s1.staged = s.staged
      /\ \A q \in Paths : s1.pending[q] = IF q = NextConnectionSequencePath THEN k + 1 ELSE s.pending[q]
  BY <1>1, SetLemma, PathFacts DEF IncreaseConnectionCounter
<1> HIDE DEF s1
<1>3. s.pending[ClientConnectionPath(c)] \in Seq(Conns) \cup {None}
  BY GetLemma, PathFacts, ValueFacts
<1>4. s1.pending[ClientConnectionPath(c)] = s.pending[ClientConnectionPath(c)]
  BY <1>2, PathFacts, Kinds
<1>5. ClientConnections(s1, c) = list /\ list \in Seq(Conns)
  BY <1>2, <1>3, <1>4, GetLemma, PathFacts DEF ClientConnections
<1> HIDE DEF list
<1>6. Append(list, k) \in ValuesAt(ClientConnectionPath(c))
  <2>1. Append(list, k) \in Seq(Conns)
    BY <1>5
  <2> QED BY <2>1, ValueFacts
<1>7. /\ s2 \in Stores /\ s2.store = s1.store /\ s2.staged = s1.staged
      /\ \A q \in Paths : s2.pending[q] =
           IF q = ClientConnectionPath(c) THEN Append(list, k) ELSE s1.pending[q]
  BY <1>2, <1>5, <1>6, SetLemma, PathFacts DEF StoreConnectionToClient
<1> HIDE DEF s2
<1>8. end \in ValuesAt(ConnectionPath(k))
  BY ValueFacts
<1>9. /\ t \in Stores /\ t.store = s2.store /\ t.staged = s2.staged
      /\ \A q \in Paths : t.pending[q] = IF q = ConnectionPath(k) THEN end ELSE s2.pending[q]
  BY <1>7, <1>8, SetLemma, PathFacts DEF StoreConnection
<1> HIDE DEF t
<1>10. SameClient(s.pending, t.pending)
  <2>1. \A q \in Paths : Kind(q) \notin ConnKinds => t.pending[q] = s.pending[q]
    BY <1>2, <1>7, <1>9, Kinds DEF ConnKinds
  <2> QED BY <2>1, SameClientKinds
<1>11. /\ t.pending[NextConnectionSequencePath] = k + 1
       /\ t.pending[NextChannelSequencePath] = s.pending[NextChannelSequencePath]
  BY <1>2, <1>7, <1>9, Kinds, PathFacts
<1>12. ASSUME NEW d \in Clients
       PROVE  t.pending[ClientConnectionPath(d)] =
                IF d = c THEN Append(list, k) ELSE s.pending[ClientConnectionPath(d)]
  <2>1. ClientConnectionPath(d) \in Paths
    BY PathFacts
  <2>2. /\ ClientConnectionPath(d) # NextConnectionSequencePath
        /\ ClientConnectionPath(d) # ConnectionPath(k)
        /\ ClientConnectionPath(d) = ClientConnectionPath(c) <=> d = c
    BY Kinds, PathsDiffer
  <2> QED BY <1>2, <1>7, <1>9, <2>1, <2>2
<1>13. ASSUME NEW j \in Conns
       PROVE  t.pending[ConnectionPath(j)] = IF j = k THEN end ELSE s.pending[ConnectionPath(j)]
  <2>1. ConnectionPath(j) \in Paths
    BY PathFacts
  <2>2. /\ ConnectionPath(j) # NextConnectionSequencePath
        /\ ConnectionPath(j) # ClientConnectionPath(c)
        /\ ConnectionPath(j) = ConnectionPath(k) <=> j = k
    BY Kinds, PathsDiffer
  <2> QED BY <1>2, <1>7, <1>9, <2>1, <2>2
<1>14. \A n \in Chans : t.pending[ChannelEndPath(n)] = s.pending[ChannelEndPath(n)]
  BY <1>2, <1>7, <1>9, Kinds, PathFacts
<1> QED BY <1>2, <1>5, <1>7, <1>9, <1>10, <1>11, <1>12, <1>13, <1>14 DEF t, s2, s1, list

\* A new connection is listed once, with its client.
LEMMA ConnPartOpened ==
  ASSUME NEW x, NEW y, x \in State, ConnPart(x),
         NEW c \in Clients, NEW k \in Conns, NEW end \in ConnectionEnds, NEW list \in Seq(Conns),
         x[NextConnectionSequencePath] = k, end.client = c,
         list = IF x[ClientConnectionPath(c)] = None THEN <<>> ELSE x[ClientConnectionPath(c)],
         y[NextConnectionSequencePath] = k + 1,
         y[NextChannelSequencePath] = x[NextChannelSequencePath],
         \A d \in Clients : y[ClientConnectionPath(d)] =
           IF d = c THEN Append(list, k) ELSE x[ClientConnectionPath(d)],
         \A j \in Conns : y[ConnectionPath(j)] = IF j = k THEN end ELSE x[ConnectionPath(j)],
         \A n \in Chans : y[ChannelEndPath(n)] = x[ChannelEndPath(n)]
  PROVE  ConnPart(y)
<1>1. end # None /\ k # None /\ k + 1 # None /\ k \in Nat
  <2>1. k \in Nat /\ k + 1 \in Nat
    BY IbcAssumption DEF Conns
  <2>2. end # None
    BY NoneAssumption
  <2> QED BY <2>1, <2>2, NoneAssumption
<1>2. \A j \in Conns : j \in Nat
  BY IbcAssumption DEF Conns
<1>3. ConnIds(y)
  BY <1>1, <1>2 DEF ConnIds, ConnPart, Below
<1>4. ChanIds(y)
  BY DEF ChanIds, ConnPart
<1>5. x[ConnectionPath(k)] = None
  BY <1>1, <1>2 DEF ConnIds, ConnPart, Below
<1> DEFINE new == Append(list, k)
<1>6. /\ Len(list) \in Nat /\ Len(new) = Len(list) + 1
      /\ \A i \in 1 .. Len(list) : new[i] = list[i]
      /\ new[Len(list) + 1] = k
      /\ new \in Seq(Conns)
  OBVIOUS
<1>7. new # None
  BY <1>6, NoneAssumption
<1> HIDE DEF new
<1>8. \A j \in Conns : (x[ConnectionPath(j)] # None /\ x[ConnectionPath(j)].client = c)
                          <=> \E i \in 1 .. Len(list) : list[i] = j
  <2>1. CASE x[ClientConnectionPath(c)] = None
    <3>1. Len(list) = 0
      BY <2>1
    <3> QED BY <2>1, <3>1 DEF ConnPart, Connected
  <2>2. CASE x[ClientConnectionPath(c)] # None
    BY <2>2 DEF ConnPart, Connected
  <2> QED BY <2>1, <2>2
<1>9. \A i, j \in 1 .. Len(list) : i # j => list[i] # list[j]
  <2>1. CASE x[ClientConnectionPath(c)] = None
    <3>1. Len(list) = 0
      BY <2>1
    <3> QED BY <3>1
  <2>2. CASE x[ClientConnectionPath(c)] # None
    BY <2>2 DEF ConnPart, Connected
  <2> QED BY <2>1, <2>2
<1>10. \A i \in 1 .. Len(list) : list[i] # k
  BY <1>5, <1>8
<1>11. \A i \in 1 .. Len(new) : i \in 1 .. Len(list) \/ i = Len(list) + 1
  BY <1>6
<1>12. \A i \in 1 .. Len(list) : i \in 1 .. Len(new)
  BY <1>6
<1>13. Len(list) + 1 \in 1 .. Len(new)
  BY <1>6
<1>14. ASSUME NEW d \in Clients
       PROVE  LET ids == y[ClientConnectionPath(d)] IN
              /\ ids # None => \A i, j \in 1 .. Len(ids) : i # j => ids[i] # ids[j]
              /\ \A j \in Conns :
                   (y[ConnectionPath(j)] # None /\ y[ConnectionPath(j)].client = d)
                     <=> (ids # None /\ \E i \in 1 .. Len(ids) : ids[i] = j)
  <2>1. CASE d = c
    <3>1. y[ClientConnectionPath(d)] = new
      BY <2>1 DEF new
    <3>2. \A i, j \in 1 .. Len(new) : i # j => new[i] # new[j]
      BY <1>6, <1>9, <1>10, <1>11
    <3>3. ASSUME NEW j \in Conns
          PROVE  (y[ConnectionPath(j)] # None /\ y[ConnectionPath(j)].client = c)
                   <=> \E i \in 1 .. Len(new) : new[i] = j
      <4>1. CASE j = k
        BY <1>1, <1>6, <1>13, <4>1
      <4>2. CASE j # k
        <5>1. (\E i \in 1 .. Len(new) : new[i] = j) <=> (\E i \in 1 .. Len(list) : list[i] = j)
          BY <1>6, <1>11, <1>12, <4>2
        <5> QED BY <1>8, <4>2, <5>1
      <4> QED BY <4>1, <4>2
    <3> QED BY <1>7, <2>1, <3>1, <3>2, <3>3
  <2>2. CASE d # c
    BY <1>1, <1>5, <2>2 DEF ConnPart, Connected
  <2> QED BY <2>1, <2>2
<1>15. ASSUME NEW n \in Chans, y[ChannelEndPath(n)] # None
       PROVE  y[ConnectionPath(y[ChannelEndPath(n)].conn)] # None
  <2>1. x[ChannelEndPath(n)] \in ChannelEnds
    BY <1>15, PathFacts, ValueFacts DEF State
  <2>2. x[ChannelEndPath(n)].conn \in Conns
    BY <2>1 DEF ChannelEnds
  <2>3. y[ChannelEndPath(n)] = x[ChannelEndPath(n)]
    OBVIOUS
  <2>4. x[ConnectionPath(x[ChannelEndPath(n)].conn)] # None
    BY <1>15, <2>3 DEF ConnPart, Connected
  <2>5. ASSUME NEW j \in Conns, x[ConnectionPath(j)] # None PROVE y[ConnectionPath(j)] # None
    BY <1>1, <2>5
  <2> QED BY <2>2, <2>3, <2>4, <2>5
<1>16. Connected(y)
  BY <1>14, <1>15 DEF Connected
<1> QED BY <1>3, <1>4, <1>16 DEF ConnPart
\* What conn_open_ack and conn_open_confirm write.
LEMMA ConfirmReads ==
  ASSUME NEW s \in Stores, NEW k \in Conns, NEW end \in ConnectionEnds
  PROVE  LET t == StoreConnection(s, k, end) IN
         /\ t \in Stores /\ t.store = s.store /\ t.staged = s.staged
         /\ SameClient(s.pending, t.pending)
         /\ t.pending[NextConnectionSequencePath] = s.pending[NextConnectionSequencePath]
         /\ t.pending[NextChannelSequencePath] = s.pending[NextChannelSequencePath]
         /\ \A d \in Clients :
              t.pending[ClientConnectionPath(d)] = s.pending[ClientConnectionPath(d)]
         /\ \A j \in Conns : t.pending[ConnectionPath(j)] =
              IF j = k THEN end ELSE s.pending[ConnectionPath(j)]
         /\ \A n \in Chans : t.pending[ChannelEndPath(n)] = s.pending[ChannelEndPath(n)]
<1> DEFINE t == StoreConnection(s, k, end)
<1>1. end \in ValuesAt(ConnectionPath(k))
  BY ValueFacts
<1>2. /\ t \in Stores /\ t.store = s.store /\ t.staged = s.staged
      /\ \A q \in Paths : t.pending[q] = IF q = ConnectionPath(k) THEN end ELSE s.pending[q]
  BY <1>1, SetLemma, PathFacts DEF StoreConnection
<1> HIDE DEF t
<1>3. ASSUME NEW q \in Paths, Kind(q) # "connections" PROVE t.pending[q] = s.pending[q]
  BY <1>2, <1>3, Kinds
<1>4. SameClient(s.pending, t.pending)
  <2>1. \A q \in Paths : Kind(q) \notin ConnKinds => t.pending[q] = s.pending[q]
    BY <1>3 DEF ConnKinds
  <2> QED BY <2>1, SameClientKinds
<1>5. \A j \in Conns : t.pending[ConnectionPath(j)] =
         IF j = k THEN end ELSE s.pending[ConnectionPath(j)]
  BY <1>2, PathFacts, PathsDiffer
<1>6. /\ t.pending[NextConnectionSequencePath] = s.pending[NextConnectionSequencePath]
      /\ t.pending[NextChannelSequencePath] = s.pending[NextChannelSequencePath]
      /\ \A d \in Clients :
           t.pending[ClientConnectionPath(d)] = s.pending[ClientConnectionPath(d)]
      /\ \A n \in Chans : t.pending[ChannelEndPath(n)] = s.pending[ChannelEndPath(n)]
  BY <1>3, PathFacts, Kinds
<1> QED BY <1>2, <1>4, <1>5, <1>6 DEF t

\* A connection that is confirmed stays with its client.
LEMMA ConnPartConfirmed ==
  ASSUME NEW x, NEW y, x \in State, ConnPart(x),
         NEW k \in Conns, NEW end \in ConnectionEnds,
         x[ConnectionPath(k)] # None, end.client = x[ConnectionPath(k)].client,
         y[NextConnectionSequencePath] = x[NextConnectionSequencePath],
         y[NextChannelSequencePath] = x[NextChannelSequencePath],
         \A d \in Clients : y[ClientConnectionPath(d)] = x[ClientConnectionPath(d)],
         \A j \in Conns : y[ConnectionPath(j)] = IF j = k THEN end ELSE x[ConnectionPath(j)],
         \A n \in Chans : y[ChannelEndPath(n)] = x[ChannelEndPath(n)]
  PROVE  ConnPart(y)
<1>1. end # None
  BY NoneAssumption
<1>2. \A j \in Conns : y[ConnectionPath(j)] # None <=> x[ConnectionPath(j)] # None
  BY <1>1
<1>3. \A j \in Conns : y[ConnectionPath(j)].client = x[ConnectionPath(j)].client
  OBVIOUS
<1>4. ConnIds(y) /\ ChanIds(y)
  BY <1>2 DEF ConnPart, ConnIds, ChanIds
<1>5. \A n \in Chans : x[ChannelEndPath(n)] # None => x[ChannelEndPath(n)].conn \in Conns
  BY PathFacts, ValueFacts DEF State, ChannelEnds
<1>6. ASSUME NEW c \in Clients
      PROVE  LET ids == y[ClientConnectionPath(c)] IN
             /\ ids # None => \A i, j \in 1 .. Len(ids) : i # j => ids[i] # ids[j]
             /\ \A j \in Conns :
                  (y[ConnectionPath(j)] # None /\ y[ConnectionPath(j)].client = c)
                    <=> (ids # None /\ \E i \in 1 .. Len(ids) : ids[i] = j)
  BY <1>2, <1>3 DEF ConnPart, Connected
<1>7. ASSUME NEW n \in Chans, y[ChannelEndPath(n)] # None
      PROVE  y[ConnectionPath(y[ChannelEndPath(n)].conn)] # None
  <2>1. y[ChannelEndPath(n)] = x[ChannelEndPath(n)]
    OBVIOUS
  <2>2. /\ x[ChannelEndPath(n)].conn \in Conns
        /\ x[ConnectionPath(x[ChannelEndPath(n)].conn)] # None
    BY <1>5, <1>7, <2>1 DEF ConnPart, Connected
  <2> QED BY <1>2, <2>1, <2>2
<1> QED BY <1>4, <1>6, <1>7 DEF ConnPart, Connected

\* What the channel handshake writes: a channel end and, if it is new, the counter.
LEMMA ChannelReads ==
  ASSUME NEW s \in Stores, NEW n \in Chans, NEW end \in ChannelEnds
  PROVE  LET t == StoreChannel(s, n, end) IN
         /\ t \in Stores /\ t.store = s.store /\ t.staged = s.staged
         /\ \A q \in Paths : Kind(q) # "channelEnds" => t.pending[q] = s.pending[q]
         /\ \A m \in Chans : t.pending[ChannelEndPath(m)] =
              IF m = n THEN end ELSE s.pending[ChannelEndPath(m)]
<1> DEFINE t == StoreChannel(s, n, end)
<1>1. end \in ValuesAt(ChannelEndPath(n))
  BY ValueFacts
<1>2. /\ t \in Stores /\ t.store = s.store /\ t.staged = s.staged
      /\ \A q \in Paths : t.pending[q] = IF q = ChannelEndPath(n) THEN end ELSE s.pending[q]
  BY <1>1, SetLemma, PathFacts DEF StoreChannel
<1> HIDE DEF t
<1>3. \A q \in Paths : Kind(q) # "channelEnds" => t.pending[q] = s.pending[q]
  BY <1>2, Kinds
<1>4. \A m \in Chans : t.pending[ChannelEndPath(m)] =
         IF m = n THEN end ELSE s.pending[ChannelEndPath(m)]
  BY <1>2, PathFacts, PathsDiffer
<1> QED BY <1>2, <1>3, <1>4 DEF t

\* A channel on a connection that exists, new or known, keeps the numbering.
LEMMA ConnPartChannel ==
  ASSUME NEW x, NEW y, x \in State, ConnPart(x),
         NEW n \in Chans, NEW end \in ChannelEnds, x[ConnectionPath(end.conn)] # None,
         \/ x[ChannelEndPath(n)] # None /\ y[NextChannelSequencePath] = x[NextChannelSequencePath]
         \/ x[NextChannelSequencePath] = n /\ y[NextChannelSequencePath] = n + 1,
         y[NextConnectionSequencePath] = x[NextConnectionSequencePath],
         \A d \in Clients : y[ClientConnectionPath(d)] = x[ClientConnectionPath(d)],
         \A j \in Conns : y[ConnectionPath(j)] = x[ConnectionPath(j)],
         \A m \in Chans : y[ChannelEndPath(m)] = IF m = n THEN end ELSE x[ChannelEndPath(m)]
  PROVE  ConnPart(y)
<1>1. end # None /\ end.conn \in Conns
  BY NoneAssumption DEF ChannelEnds
<1>2. \A m \in Chans : m \in Nat /\ m + 1 \in Nat
  BY IbcAssumption DEF Chans
<1>3. n # None /\ n + 1 # None
  BY <1>2, NoneAssumption
<1>4. ConnIds(y)
  BY DEF ConnPart, ConnIds
<1>5. ChanIds(y)
  <2>1. CASE x[ChannelEndPath(n)] # None /\ y[NextChannelSequencePath] = x[NextChannelSequencePath]
    BY <1>1, <2>1 DEF ConnPart, ChanIds
  <2>2. CASE x[NextChannelSequencePath] = n /\ y[NextChannelSequencePath] = n + 1
    <3>1. ASSUME NEW m \in Chans PROVE y[ChannelEndPath(m)] # None <=> m < n + 1
      <4>1. x[ChannelEndPath(m)] # None <=> m < n
        BY <1>3, <2>2 DEF ConnPart, ChanIds, Below
      <4>2. m < n + 1 <=> m < n \/ m = n
        BY <1>2
      <4> QED BY <1>1, <4>1, <4>2
    <3> QED BY <1>3, <2>2, <3>1 DEF ChanIds, Below
  <2> QED BY <2>1, <2>2
<1>6. \A c \in Clients :
        LET ids == y[ClientConnectionPath(c)] IN
        /\ ids # None => \A i, j \in 1 .. Len(ids) : i # j => ids[i] # ids[j]
        /\ \A j \in Conns :
             (y[ConnectionPath(j)] # None /\ y[ConnectionPath(j)].client = c)
               <=> (ids # None /\ \E i \in 1 .. Len(ids) : ids[i] = j)
  BY DEF ConnPart, Connected
<1>7. ASSUME NEW m \in Chans, y[ChannelEndPath(m)] # None
      PROVE  y[ConnectionPath(y[ChannelEndPath(m)].conn)] # None
  <2>1. CASE m = n
    BY <1>1, <2>1
  <2>2. CASE m # n
    <3>1. x[ChannelEndPath(m)] \in ChannelEnds /\ y[ChannelEndPath(m)] = x[ChannelEndPath(m)]
      BY <1>7, <2>2, PathFacts, ValueFacts DEF State
    <3>2. x[ChannelEndPath(m)].conn \in Conns
      BY <3>1 DEF ChannelEnds
    <3>3. x[ConnectionPath(x[ChannelEndPath(m)].conn)] # None
      BY <1>7, <3>1 DEF ConnPart, Connected
    <3> QED BY <3>1, <3>2, <3>3
  <2> QED BY <2>1, <2>2
<1> QED BY <1>4, <1>5, <1>6, <1>7 DEF ConnPart, Connected
-----------------------------------------------------------------------------
(* The inductive invariant                                                 *)

\* What the invariant says of the state that a handler reads.
LEMMA InvFacts ==
  ASSUME IInv
  PROVE  /\ ibc \in Stores /\ ibc.pending \in State /\ ibc.staged \in State
         /\ CurrentHeight(ibc) \in Nat
         /\ ClientPart(ibc.pending, CurrentHeight(ibc), hostCons)
         /\ ConnPart(ibc.pending)
         /\ \A p \in Paths : Get(ibc, p) = ibc.pending[p]
         /\ HostTimestamp(ibc) # None =>
              /\ HostHeight(ibc) \in 1 .. CurrentHeight(ibc)
              /\ HostTimestamp(ibc) \in Nat
              /\ HostTimestamp(ibc) = hostCons[HostHeight(ibc)]
<1>1. ibc \in Stores /\ ibc.pending \in State /\ ibc.staged \in State
  BY DEF IInv, Stores, StoreOf
<1>2. CurrentHeight(ibc) \in Nat
  BY <1>1 DEF Stores, StoreOf, VecOf, CurrentHeight, OriginalLength
<1>3. Good(ibc.pending, CurrentHeight(ibc), hostCons)
  BY DEF IInv, States
<1>4. \A p \in Paths : Get(ibc, p) = ibc.pending[p]
  BY <1>1, GetLemma
<1>5. ASSUME HostTimestamp(ibc) # None
      PROVE  /\ HostHeight(ibc) \in 1 .. CurrentHeight(ibc)
             /\ HostTimestamp(ibc) \in Nat
             /\ HostTimestamp(ibc) = hostCons[HostHeight(ibc)]
  <2>1. HostHeight(ibc) = CurrentHeight(ibc) /\ HostHeight(ibc) # 0
    BY <1>5 DEF HostTimestamp, HostHeight
  <2>2. HostTimestamp(ibc) = hostCons[HostHeight(ibc)]
    BY <2>1 DEF HostTimestamp
  <2>3. HostHeight(ibc) \in 1 .. CurrentHeight(ibc) /\ HostHeight(ibc) \in 1 .. MaxHeight
    BY <1>2, <2>1, IbcAssumption DEF IInv
  <2>4. hostCons[HostHeight(ibc)] \in Nat \cup {None}
    BY <2>3 DEF IInv
  <2> QED BY <1>5, <2>2, <2>3, <2>4
<1> QED BY <1>1, <1>2, <1>3, <1>4, <1>5 DEF Good

\* A handler that leaves a good pending state preserves the invariant.
LEMMA HandledInv ==
  ASSUME IInv, NEW t \in Stores, Handled(t),
         t.store = ibc.store, t.staged = ibc.staged,
         ClientPart(t.pending, CurrentHeight(ibc), hostCons), ConnPart(t.pending)
  PROVE  IInv'
<1>1. ibc' = t /\ hostCons' = hostCons /\ pc' = pc /\ halted' = halted
  BY DEF Handled
<1>2. CurrentHeight(ibc)' = CurrentHeight(ibc)
  BY <1>1 DEF CurrentHeight
<1>3. \A s \in States' : s = t.pending \/ s \in States
  BY <1>1 DEF States
<1>4. \A s \in States' : Good(s, CurrentHeight(ibc), hostCons)
  BY <1>3 DEF IInv, Good
<1> QED BY <1>1, <1>2, <1>4 DEF IInv

\* create_client: the next identifier, with everything a client needs.
LEMMA CreateInv ==
  ASSUME IInv, NEW h \in Heights, CreateClient(h)
  PROVE  IInv'
<1> DEFINE H == CurrentHeight(ibc)
           x == ibc.pending
           c == x[NextClientSequencePath]
           state == [latest |-> h, frozen |-> FALSE]
           s1 == StoreClient(ibc, c, state, h)
           t == IncreaseClientCounter(s1)
           y == t.pending
<1>0. /\ ibc \in Stores /\ x \in State /\ H \in Nat
      /\ ClientPart(x, H, hostCons) /\ ConnPart(x)
      /\ \A p \in Paths : Get(ibc, p) = x[p]
  BY InvFacts
<1>1. /\ HostTimestamp(ibc) # None /\ c # None /\ c \in Clients
      /\ x[ClientStatePath(c)] = None /\ Handled(t)
  BY <1>0, PathFacts DEF CreateClient, ClientState
<1>2. /\ HostHeight(ibc) \in 1 .. H /\ HostTimestamp(ibc) \in Nat /\ HostHeight(ibc) \in Nat
      /\ HostTimestamp(ibc) = hostCons[HostHeight(ibc)]
  BY <1>1, InvFacts
<1>3. state \in ClientStates
  BY DEF ClientStates
<1> HIDE DEF c, state
<1>4. /\ s1 \in Stores /\ s1.store = ibc.store /\ s1.staged = ibc.staged
      /\ s1.pending[NextClientSequencePath] = c
      /\ \A d \in Clients : s1.pending[ClientStatePath(d)] =
                              IF d = c THEN state ELSE x[ClientStatePath(d)]
      /\ \A d \in Clients, g \in Heights :
           /\ s1.pending[ClientConsensusStatePath(d, g)] =
                IF d = c /\ g = h THEN h ELSE x[ClientConsensusStatePath(d, g)]
           /\ s1.pending[ClientUpdateTimePath(d, g)] =
                IF d = c /\ g = h THEN HostTimestamp(ibc) ELSE x[ClientUpdateTimePath(d, g)]
           /\ s1.pending[ClientUpdateHeightPath(d, g)] =
                IF d = c /\ g = h THEN HostHeight(ibc) ELSE x[ClientUpdateHeightPath(d, g)]
      /\ SameConn(x, s1.pending)
  BY <1>0, <1>1, <1>2, <1>3, ClientReads DEF c
<1> HIDE DEF s1
<1>5. c \in Nat /\ c + 1 \in Nat /\ c + 1 # None /\ \A d \in Clients : d \in Nat
  <2>1. c \in Nat /\ c + 1 \in Nat /\ \A d \in Clients : d \in Nat
    BY <1>1, IbcAssumption DEF Clients
  <2> QED BY <2>1, NoneAssumption
<1>6. /\ t \in Stores /\ t.store = s1.store /\ t.staged = s1.staged
      /\ \A q \in Paths : y[q] = IF q = NextClientSequencePath THEN c + 1 ELSE s1.pending[q]
  <2>1. Get(s1, NextClientSequencePath) = c
    BY <1>4, GetLemma, PathFacts
  <2>2. t = StoreSet(s1, NextClientSequencePath, c + 1)
    BY <2>1 DEF IncreaseClientCounter
  <2>3. c + 1 \in ValuesAt(NextClientSequencePath)
    BY <1>5, ValueFacts
  <2> HIDE DEF t
  <2> QED BY <1>4, <2>2, <2>3, SetLemma, PathFacts
<1> HIDE DEF t
<1>7. \A q \in Paths : Kind(q) # "nextClientSequence" => y[q] = s1.pending[q]
  BY <1>6, Kinds
<1>8. y \in State
  BY <1>6, GetLemma, PathFacts
<1> HIDE DEF y, x, H
<1>9. \A d \in Clients : y[ClientStatePath(d)] = IF d = c THEN state ELSE x[ClientStatePath(d)]
  BY <1>4, <1>7, PathFacts, Kinds
<1>10. \A d \in Clients, g \in Heights :
         /\ y[ClientConsensusStatePath(d, g)] =
              IF d = c /\ g = h THEN h ELSE x[ClientConsensusStatePath(d, g)]
         /\ y[ClientUpdateTimePath(d, g)] =
              IF d = c /\ g = h THEN HostTimestamp(ibc) ELSE x[ClientUpdateTimePath(d, g)]
         /\ y[ClientUpdateHeightPath(d, g)] =
              IF d = c /\ g = h THEN HostHeight(ibc) ELSE x[ClientUpdateHeightPath(d, g)]
  BY <1>4, <1>7, PathFacts, Kinds
<1>11. SameConn(x, y)
  BY <1>4, <1>7, PathFacts, Kinds DEF SameConn
<1>12. ConnPart(y)
  BY <1>0, <1>11, ConnPartKept
<1>13. \A g \in Heights : x[ClientConsensusStatePath(c, g)] = None
  BY <1>0, <1>1 DEF ClientPart, NoOrphans, x
<1>14. state.latest = h /\ h \in Nat
  BY HeightFacts DEF state
<1>15. WithMeta(y, H, hostCons) /\ LatestKept(y) /\ NoOrphans(y)
  <2>1. /\ WithMeta(x, H, hostCons) /\ LatestKept(x) /\ NoOrphans(x)
        /\ h <= state.latest
    BY <1>0, <1>14 DEF ClientPart
  <2> QED BY <1>0, <1>1, <1>2, <1>3, <1>8, <1>9, <1>10, <1>13, <1>14, <2>1, ClientPartStored
<1>16. ClientIds(y)
  <2>1. y[NextClientSequencePath] = c + 1
    BY <1>6, PathFacts DEF y
  <2>2. state # None
    BY <1>3, NoneAssumption
  <2>3. ASSUME NEW d \in Clients PROVE y[ClientStatePath(d)] # None <=> d < c + 1
    <3>1. x[ClientStatePath(d)] # None <=> d < c
      BY <1>0, <1>1 DEF ClientPart, ClientIds, Below, c
    <3>2. d < c + 1 <=> d < c \/ d = c
      BY <1>5
    <3> QED BY <1>9, <2>2, <3>1, <3>2
  <2> QED BY <1>5, <2>1, <2>3 DEF ClientIds, Below
<1>17. ClientPart(y, H, hostCons)
  BY <1>15, <1>16 DEF ClientPart
<1> QED BY <1>1, <1>4, <1>6, <1>12, <1>17, HandledInv DEF y, H

\* A header that the client has already: pruning alone.
LEMMA UpdateKnownInv ==
  ASSUME IInv, NEW c \in Clients, NEW h \in Heights, NEW oldest \in Heights,
         UpdateKnown(c, h, oldest)
  PROVE  IInv'
<1> DEFINE H == CurrentHeight(ibc)
           x == ibc.pending
           t == Pruned(ibc, c, oldest)
           y == t.pending
<1>0. /\ ibc \in Stores /\ x \in State /\ H \in Nat
      /\ ClientPart(x, H, hostCons) /\ ConnPart(x)
      /\ \A p \in Paths : Get(ibc, p) = x[p]
  BY InvFacts
<1>1. oldest <= x[ClientStatePath(c)].latest /\ Handled(t)
  BY <1>0, PathFacts DEF UpdateKnown, ClientState
<1>2. /\ t \in Stores /\ t.store = ibc.store /\ t.staged = ibc.staged
      /\ y[NextClientSequencePath] = x[NextClientSequencePath]
      /\ \A d \in Clients : y[ClientStatePath(d)] = x[ClientStatePath(d)]
      /\ \A d \in Clients, g \in Heights :
           LET gone == d = c /\ g < oldest /\ x[ClientConsensusStatePath(c, g)] # None IN
           /\ y[ClientConsensusStatePath(d, g)] =
                IF gone THEN None ELSE x[ClientConsensusStatePath(d, g)]
           /\ y[ClientUpdateTimePath(d, g)] =
                IF gone THEN None ELSE x[ClientUpdateTimePath(d, g)]
           /\ y[ClientUpdateHeightPath(d, g)] =
                IF gone THEN None ELSE x[ClientUpdateHeightPath(d, g)]
      /\ SameConn(x, y)
  BY <1>0, PrunedReads
<1> HIDE DEF t, y, x, H
<1>3. ConnPart(y)
  BY <1>0, <1>2, ConnPartKept
<1>4. WithMeta(x, H, hostCons) /\ LatestKept(x) /\ NoOrphans(x) /\ ClientIds(x)
  BY <1>0 DEF ClientPart
<1>5. WithMeta(y, H, hostCons) /\ LatestKept(y) /\ NoOrphans(y)
  BY <1>0, <1>1, <1>2, <1>4, ClientPartPruned
<1>6. ClientIds(y)
  BY <1>2, <1>4 DEF ClientIds
<1>7. ClientPart(y, H, hostCons)
  BY <1>5, <1>6 DEF ClientPart
<1> QED BY <1>1, <1>2, <1>3, <1>7, HandledInv DEF y, H

\* Freezing a client.
LEMMA FreezeInv ==
  ASSUME IInv, NEW c \in Clients, NEW state \in ClientStates,
         ClientState(ibc, c) # None, state.latest = ClientState(ibc, c).latest,
         Handled(StoreClientState(ibc, c, state))
  PROVE  IInv'
<1> DEFINE H == CurrentHeight(ibc)
           x == ibc.pending
           t == StoreClientState(ibc, c, state)
           y == t.pending
<1>0. /\ ibc \in Stores /\ x \in State /\ H \in Nat
      /\ ClientPart(x, H, hostCons) /\ ConnPart(x)
      /\ \A p \in Paths : Get(ibc, p) = x[p]
  BY InvFacts
<1>1. x[ClientStatePath(c)] # None /\ state.latest = x[ClientStatePath(c)].latest
  BY <1>0, PathFacts DEF ClientState
<1>2. /\ t \in Stores /\ t.store = ibc.store /\ t.staged = ibc.staged
      /\ y[NextClientSequencePath] = x[NextClientSequencePath]
      /\ \A d \in Clients : y[ClientStatePath(d)] = IF d = c THEN state ELSE x[ClientStatePath(d)]
      /\ \A d \in Clients, g \in Heights :
           /\ y[ClientConsensusStatePath(d, g)] = x[ClientConsensusStatePath(d, g)]
           /\ y[ClientUpdateTimePath(d, g)] = x[ClientUpdateTimePath(d, g)]
           /\ y[ClientUpdateHeightPath(d, g)] = x[ClientUpdateHeightPath(d, g)]
      /\ SameConn(x, y)
  BY <1>0, ClientStateReads
<1> HIDE DEF t, y, x, H
<1>3. ConnPart(y)
  BY <1>0, <1>2, ConnPartKept
<1>4. WithMeta(x, H, hostCons) /\ LatestKept(x) /\ NoOrphans(x) /\ ClientIds(x)
  BY <1>0 DEF ClientPart
<1>5. WithMeta(y, H, hostCons) /\ LatestKept(y) /\ NoOrphans(y)
  BY <1>0, <1>1, <1>2, <1>4, ClientPartFrozen
<1>6. state # None
  BY NoneAssumption
<1>7. ClientIds(y)
  BY <1>1, <1>2, <1>4, <1>6 DEF ClientIds
<1>8. ClientPart(y, H, hostCons)
  BY <1>5, <1>7 DEF ClientPart
<1> QED BY <1>2, <1>3, <1>8, HandledInv DEF t, y, H

\* Storing a state of a known client with a consensus state, on top of a good
\* pending state that differs from that of the store at most in what is pruned.
LEMMA StoreClientInv ==
  ASSUME IInv, NEW s \in Stores, s.store = ibc.store, s.staged = ibc.staged,
         NEW c \in Clients, NEW state \in ClientStates, NEW h \in Heights,
         HostTimestamp(ibc) # None,
         ClientPart(s.pending, CurrentHeight(ibc), hostCons), ConnPart(s.pending),
         s.pending[ClientStatePath(c)] # None,
         h <= state.latest,
         h = state.latest \/ s.pending[ClientConsensusStatePath(c, state.latest)] # None,
         \A g \in Heights : g > state.latest => s.pending[ClientConsensusStatePath(c, g)] = None,
         Handled(StoreClient(s, c, state, h))
  PROVE  IInv'
<1> DEFINE H == CurrentHeight(ibc)
           x == s.pending
           t == StoreClient(s, c, state, h)
           y == t.pending
           time == HostTimestamp(ibc)
           at == HostHeight(ibc)
<1>0. H \in Nat /\ at \in 1 .. H /\ at \in Nat /\ time \in Nat /\ time = hostCons[at]
  BY InvFacts
<1>1. HostHeight(s) = at /\ HostTimestamp(s) = time
  BY DEF HostHeight, HostTimestamp, CurrentHeight
<1>2. x \in State
  BY DEF Stores, StoreOf
<1>3. /\ t \in Stores /\ t.store = s.store /\ t.staged = s.staged
      /\ y[NextClientSequencePath] = x[NextClientSequencePath]
      /\ \A d \in Clients : y[ClientStatePath(d)] = IF d = c THEN state ELSE x[ClientStatePath(d)]
      /\ \A d \in Clients, g \in Heights :
           /\ y[ClientConsensusStatePath(d, g)] =
                IF d = c /\ g = h THEN h ELSE x[ClientConsensusStatePath(d, g)]
           /\ y[ClientUpdateTimePath(d, g)] =
                IF d = c /\ g = h THEN time ELSE x[ClientUpdateTimePath(d, g)]
           /\ y[ClientUpdateHeightPath(d, g)] =
                IF d = c /\ g = h THEN at ELSE x[ClientUpdateHeightPath(d, g)]
      /\ SameConn(x, y)
  <2> HIDE DEF time, at
  <2>1. HostTimestamp(s) \in Nat /\ HostHeight(s) \in Nat
    BY <1>0, <1>1
  <2> QED BY <1>1, <2>1, ClientReads
<1>4. y \in State
  BY <1>3 DEF Stores, StoreOf
<1> HIDE DEF t, y, x, H, time, at
<1>5. ConnPart(y)
  BY <1>2, <1>3, ConnPartKept DEF x
<1>6. WithMeta(x, H, hostCons) /\ LatestKept(x) /\ NoOrphans(x) /\ ClientIds(x)
  BY DEF ClientPart, x, H
<1>7. WithMeta(y, H, hostCons) /\ LatestKept(y) /\ NoOrphans(y)
  <2>1. /\ h = state.latest \/ x[ClientConsensusStatePath(c, state.latest)] # None
        /\ \A g \in Heights : g > state.latest => x[ClientConsensusStatePath(c, g)] = None
    BY DEF x
  <2> QED BY <1>0, <1>2, <1>3, <1>4, <1>6, <2>1, ClientPartStored
<1>8. state # None /\ x[ClientStatePath(c)] # None
  BY NoneAssumption DEF x
<1>9. ClientIds(y)
  BY <1>3, <1>6, <1>8 DEF ClientIds
<1>10. ClientPart(y, H, hostCons)
  BY <1>7, <1>9 DEF ClientPart
<1> QED BY <1>3, <1>5, <1>10, HandledInv DEF t, y, H

\* update_client: frozen, or pruned and stored, in either order of heights.
LEMMA UpdateInv ==
  ASSUME IInv, NEW c \in Clients, NEW h \in Heights, NEW oldest \in Heights,
         UpdateClient(c, h, oldest)
  PROVE  IInv'
<1> DEFINE H == CurrentHeight(ibc)
           x == ibc.pending
           latest == ClientState(ibc, c).latest
           state == [latest |-> IF h > latest THEN h ELSE latest, frozen |-> FALSE]
           s == Pruned(ibc, c, oldest)
           y == s.pending
<1>0. /\ ibc \in Stores /\ x \in State /\ H \in Nat
      /\ ClientPart(x, H, hostCons) /\ ConnPart(x)
      /\ \A p \in Paths : Get(ibc, p) = x[p]
  BY InvFacts
<1>1. /\ HostTimestamp(ibc) # None /\ ClientState(ibc, c) # None
      /\ oldest <= latest
      /\ ConsensusState(ibc, c, latest) # None
  BY DEF UpdateClient, Verified, Active
<1>2. /\ ClientState(ibc, c) = x[ClientStatePath(c)]
      /\ \A g \in Heights : ConsensusState(ibc, c, g) = x[ClientConsensusStatePath(c, g)]
  BY <1>0, PathFacts DEF ClientState, ConsensusState
<1>3. ClientState(ibc, c) \in ClientStates
  BY <1>0, <1>1, <1>2, PathFacts, ValueFacts DEF State
<1>4. latest \in Heights
  BY <1>3 DEF ClientStates
<1>5. CASE PrevPanics(ibc, c, h)
  <2>1. Halts
    BY <1>5 DEF UpdateClient
  <2>2. /\ ibc' = ibc /\ hostCons' = hostCons /\ pc' = pc /\ halted' = TRUE
    BY <2>1 DEF Halts
  <2> QED BY <2>2 DEF IInv, States, CurrentHeight
<1>6. CASE ~PrevPanics(ibc, c, h) /\ LooksWrong(c, h)
  <2> DEFINE frozen == [latest |-> latest, frozen |-> TRUE]
  <2>1. Handled(StoreClientState(ibc, c, frozen))
    BY <1>6 DEF UpdateClient
  <2>2. frozen \in ClientStates /\ frozen.latest = latest
    <3> HIDE DEF latest
    <3> QED BY <1>4 DEF ClientStates
  <2> HIDE DEF frozen
  <2> QED BY <1>1, <2>1, <2>2, FreezeInv
<1>7. CASE ~PrevPanics(ibc, c, h) /\ ~LooksWrong(c, h)
  <2>1. Handled(StoreClient(s, c, state, h))
    BY <1>7 DEF UpdateClient
  <2>2. /\ s \in Stores /\ s.store = ibc.store /\ s.staged = ibc.staged
        /\ y[NextClientSequencePath] = x[NextClientSequencePath]
        /\ \A d \in Clients : y[ClientStatePath(d)] = x[ClientStatePath(d)]
        /\ \A d \in Clients, g \in Heights :
             LET gone == d = c /\ g < oldest /\ x[ClientConsensusStatePath(c, g)] # None IN
             /\ y[ClientConsensusStatePath(d, g)] =
                  IF gone THEN None ELSE x[ClientConsensusStatePath(d, g)]
             /\ y[ClientUpdateTimePath(d, g)] =
                  IF gone THEN None ELSE x[ClientUpdateTimePath(d, g)]
             /\ y[ClientUpdateHeightPath(d, g)] =
                  IF gone THEN None ELSE x[ClientUpdateHeightPath(d, g)]
        /\ SameConn(x, y)
    BY <1>0, PrunedReads
  <2> HIDE DEF s
  <2>3. ConnPart(y)
    <3> HIDE DEF x, y
    <3> QED BY <1>0, <2>2, ConnPartKept
  <2>4. WithMeta(x, H, hostCons) /\ LatestKept(x) /\ NoOrphans(x) /\ ClientIds(x)
    BY <1>0 DEF ClientPart
  <2>5. oldest <= x[ClientStatePath(c)].latest
    BY <1>1, <1>2
  <2>6. WithMeta(y, H, hostCons) /\ LatestKept(y) /\ NoOrphans(y)
    <3> HIDE DEF x, y, H
    <3> QED BY <1>0, <2>2, <2>4, <2>5, ClientPartPruned
  <2>7. ClientIds(y)
    <3> HIDE DEF x, y, H
    <3> QED BY <2>2, <2>4 DEF ClientIds
  <2>8. ClientPart(y, H, hostCons)
    BY <2>6, <2>7 DEF ClientPart
  <2>9. state \in ClientStates /\ h <= state.latest /\ latest <= state.latest
        /\ (h = state.latest \/ latest = state.latest)
    <3>1. h \in Nat /\ latest \in Nat
      BY <1>4, HeightFacts
    <3> HIDE DEF latest
    <3> QED BY <1>4, <3>1 DEF ClientStates
  <2>10. y[ClientStatePath(c)] # None /\ y[ClientStatePath(c)].latest = latest
    BY <1>1, <1>2, <2>2
  <2>11. y[ClientConsensusStatePath(c, latest)] # None
    BY <2>6, <2>10 DEF LatestKept
  <2>12. ASSUME NEW g \in Heights, g > state.latest
         PROVE  y[ClientConsensusStatePath(c, g)] = None
    <3>1. g \in Nat /\ latest \in Nat /\ state.latest \in Nat
      BY <1>4, <2>9, HeightFacts DEF ClientStates
    <3>2. g > latest
      <4> HIDE DEF state, latest
      <4> QED BY <2>9, <2>12, <3>1
    <3> HIDE DEF y
    <3> QED BY <2>6, <2>10, <3>2 DEF LatestKept
  <2>13. h = state.latest \/ y[ClientConsensusStatePath(c, state.latest)] # None
    <3> HIDE DEF state, latest, y
    <3> QED BY <2>9, <2>11
  <2> HIDE DEF state, latest, y
  <2> QED BY <1>1, <2>1, <2>2, <2>3, <2>8, <2>9, <2>10, <2>12, <2>13, StoreClientInv DEF y
<1> QED BY <1>5, <1>6, <1>7

\* Evidence of misbehaviour freezes the client.
LEMMA MisbehaviourInv ==
  ASSUME IInv, NEW c \in Clients, Misbehaviour(c)
  PROVE  IInv'
<1> DEFINE state == [ClientState(ibc, c) EXCEPT !.frozen = TRUE]
<1>1. ClientState(ibc, c) # None /\ Handled(StoreClientState(ibc, c, state))
  BY DEF Misbehaviour, Active
<1>2. ClientState(ibc, c) \in ClientStates
  BY <1>1, InvFacts, PathFacts, ValueFacts DEF ClientState, State
<1>3. state \in ClientStates /\ state.latest = ClientState(ibc, c).latest
  BY <1>2 DEF ClientStates
<1> HIDE DEF state
<1> QED BY <1>1, <1>3, FreezeInv

\* Recovery by governance: the client goes on at the height of its substitute.
LEMMA RecoverInv ==
  ASSUME IInv, NEW c \in Clients, NEW d \in Clients, RecoverClient(c, d)
  PROVE  IInv'
<1> DEFINE x == ibc.pending
           state == ClientState(ibc, d)
           h == state.latest
<1>0. /\ ibc \in Stores /\ x \in State
      /\ ClientPart(x, CurrentHeight(ibc), hostCons) /\ ConnPart(x)
      /\ \A p \in Paths : Get(ibc, p) = x[p]
  BY InvFacts
<1>1. /\ HostTimestamp(ibc) # None
      /\ x[ClientStatePath(c)] # None /\ state # None
      /\ state.latest > x[ClientStatePath(c)].latest
      /\ Handled(StoreClient(ibc, c, state, h))
  BY <1>0, PathFacts DEF RecoverClient, Active, ClientState
<1>2. state = x[ClientStatePath(d)]
  BY <1>0, PathFacts DEF ClientState
<1>3. state \in ClientStates /\ x[ClientStatePath(c)] \in ClientStates
  BY <1>0, <1>1, <1>2, PathFacts, ValueFacts DEF State
<1>4. h \in Heights /\ x[ClientStatePath(c)].latest \in Heights
  BY <1>3 DEF ClientStates
<1>5. ASSUME NEW g \in Heights, g > state.latest
      PROVE  x[ClientConsensusStatePath(c, g)] = None
  <2>1. g > x[ClientStatePath(c)].latest
    <3>1. g \in Nat /\ h \in Nat /\ x[ClientStatePath(c)].latest \in Nat
      BY <1>4, HeightFacts
    <3> QED BY <1>1, <1>5, <3>1
  <2> QED BY <1>0, <1>1, <2>1 DEF ClientPart, LatestKept
<1>6. h <= state.latest
  BY <1>4, HeightFacts
<1> HIDE DEF state
<1> QED BY <1>0, <1>1, <1>3, <1>4, <1>5, <1>6, StoreClientInv

\* conn_open_init and conn_open_try.
LEMMA ConnectionOpenInv ==
  ASSUME IInv, NEW c \in Clients, NEW k \in Conns, ConnectionOpen(c, k)
  PROVE  IInv'
<1> DEFINE H == CurrentHeight(ibc)
           x == ibc.pending
           end == [client |-> c, open |-> FALSE]
           t == StoreConnection(StoreConnectionToClient(IncreaseConnectionCounter(ibc), c, k), k, end)
           y == t.pending
           list == IF x[ClientConnectionPath(c)] = None THEN <<>> ELSE x[ClientConnectionPath(c)]
<1>0. /\ ibc \in Stores /\ x \in State /\ H \in Nat
      /\ ClientPart(x, H, hostCons) /\ ConnPart(x)
      /\ x[NextConnectionSequencePath] = k
  BY InvFacts, PathFacts DEF ConnectionOpen
<1>1. k = Get(ibc, NextConnectionSequencePath) /\ Handled(t)
  BY DEF ConnectionOpen
<1>2. end \in ConnectionEnds /\ end.client = c
  BY DEF ConnectionEnds
<1> HIDE DEF end
<1>3. /\ t \in Stores /\ t.store = ibc.store /\ t.staged = ibc.staged
      /\ SameClient(x, y)
      /\ y[NextConnectionSequencePath] = k + 1
      /\ y[NextChannelSequencePath] = x[NextChannelSequencePath]
      /\ list \in Seq(Conns)
      /\ \A d \in Clients : y[ClientConnectionPath(d)] =
           IF d = c THEN Append(list, k) ELSE x[ClientConnectionPath(d)]
      /\ \A j \in Conns : y[ConnectionPath(j)] =
           IF j = k THEN end ELSE x[ConnectionPath(j)]
      /\ \A n \in Chans : y[ChannelEndPath(n)] = x[ChannelEndPath(n)]
  BY <1>0, <1>1, <1>2, OpenReads
<1>4. list = IF x[ClientConnectionPath(c)] = None THEN <<>> ELSE x[ClientConnectionPath(c)]
  OBVIOUS
<1> HIDE DEF t, y, x, H, list
<1>5. ClientPart(y, H, hostCons)
  BY <1>0, <1>3, ClientPartKept
<1>6. ConnPart(y)
  BY <1>0, <1>1, <1>2, <1>3, <1>4, ConnPartOpened
<1> QED BY <1>1, <1>3, <1>5, <1>6, HandledInv DEF t, y, H

\* conn_open_ack and conn_open_confirm.
LEMMA ConnectionConfirmInv ==
  ASSUME IInv, NEW k \in Conns, ConnectionConfirm(k)
  PROVE  IInv'
<1> DEFINE H == CurrentHeight(ibc)
           x == ibc.pending
           old == x[ConnectionPath(k)]
           end == [old EXCEPT !.open = TRUE]
           t == StoreConnection(ibc, k, end)
           y == t.pending
<1>0. /\ ibc \in Stores /\ x \in State /\ H \in Nat
      /\ ClientPart(x, H, hostCons) /\ ConnPart(x)
      /\ Get(ibc, ConnectionPath(k)) = old
  BY InvFacts, PathFacts
<1>1. old # None /\ Handled(t)
  BY <1>0 DEF ConnectionConfirm
<1>2. old \in ConnectionEnds
  BY <1>0, <1>1, PathFacts, ValueFacts DEF State
<1>3. end \in ConnectionEnds /\ end.client = old.client
  <2> HIDE DEF old
  <2> QED BY <1>2 DEF ConnectionEnds
<1> HIDE DEF end
<1>4. /\ t \in Stores /\ t.store = ibc.store /\ t.staged = ibc.staged
      /\ SameClient(x, y)
      /\ y[NextConnectionSequencePath] = x[NextConnectionSequencePath]
      /\ y[NextChannelSequencePath] = x[NextChannelSequencePath]
      /\ \A d \in Clients : y[ClientConnectionPath(d)] = x[ClientConnectionPath(d)]
      /\ \A j \in Conns : y[ConnectionPath(j)] = IF j = k THEN end ELSE x[ConnectionPath(j)]
      /\ \A n \in Chans : y[ChannelEndPath(n)] = x[ChannelEndPath(n)]
  BY <1>0, <1>3, ConfirmReads
<1> HIDE DEF t, y, x, H
<1>5. ClientPart(y, H, hostCons)
  BY <1>0, <1>4, ClientPartKept
<1>6. ConnPart(y)
  BY <1>0, <1>1, <1>3, <1>4, ConnPartConfirmed
<1> QED BY <1>1, <1>4, <1>5, <1>6, HandledInv DEF t, y, H

\* chan_open_init and chan_open_try.
LEMMA ChannelOpenInv ==
  ASSUME IInv, NEW k \in Conns, ChannelOpen(k)
  PROVE  IInv'
<1> DEFINE H == CurrentHeight(ibc)
           x == ibc.pending
           n == x[NextChannelSequencePath]
           end == [conn |-> k, state |-> "init"]
           s == StoreChannel(ibc, n, end)
           t == IncreaseChannelCounter(s)
           y == t.pending
<1>0. /\ ibc \in Stores /\ x \in State /\ H \in Nat
      /\ ClientPart(x, H, hostCons) /\ ConnPart(x)
      /\ Get(ibc, NextChannelSequencePath) = n
      /\ Get(ibc, ConnectionPath(k)) = x[ConnectionPath(k)]
  BY InvFacts, PathFacts
<1>1. n \in Chans /\ x[ConnectionPath(k)] # None /\ Handled(t)
  BY <1>0 DEF ChannelOpen
<1>2. end \in ChannelEnds /\ end.conn = k
  BY DEF ChannelEnds
<1>3. n + 1 \in Nat
  BY <1>1, IbcAssumption DEF Chans
<1> HIDE DEF end, n
<1>4. /\ s \in Stores /\ s.store = ibc.store /\ s.staged = ibc.staged
      /\ \A q \in Paths : Kind(q) # "channelEnds" => s.pending[q] = x[q]
      /\ \A m \in Chans : s.pending[ChannelEndPath(m)] =
           IF m = n THEN end ELSE x[ChannelEndPath(m)]
  BY <1>0, <1>1, <1>2, ChannelReads
<1> HIDE DEF s
<1>5. Get(s, NextChannelSequencePath) = n
  BY <1>4, GetLemma, PathFacts, Kinds DEF n
<1>6. /\ t \in Stores /\ t.store = s.store /\ t.staged = s.staged
      /\ \A q \in Paths : y[q] = IF q = NextChannelSequencePath THEN n + 1 ELSE s.pending[q]
  <2>1. n + 1 \in ValuesAt(NextChannelSequencePath)
    BY <1>3, ValueFacts
  <2>2. t = StoreSet(s, NextChannelSequencePath, n + 1)
    BY <1>5 DEF IncreaseChannelCounter
  <2> HIDE DEF t
  <2> QED BY <1>4, <2>1, <2>2, SetLemma, PathFacts
<1> HIDE DEF t, y, x, H
<1>7. \A q \in Paths : Kind(q) \notin {"channelEnds", "nextChannelSequence"} => y[q] = x[q]
  BY <1>4, <1>6, Kinds
<1>8. SameClient(x, y)
  <2>1. \A q \in Paths : Kind(q) \notin ConnKinds => y[q] = x[q]
    BY <1>7 DEF ConnKinds
  <2> QED BY <2>1, SameClientKinds
<1>9. ClientPart(y, H, hostCons)
  BY <1>0, <1>8, ClientPartKept
<1>10. /\ y[NextConnectionSequencePath] = x[NextConnectionSequencePath]
       /\ \A d \in Clients : y[ClientConnectionPath(d)] = x[ClientConnectionPath(d)]
       /\ \A j \in Conns : y[ConnectionPath(j)] = x[ConnectionPath(j)]
  BY <1>7, PathFacts, Kinds
<1>11. y[NextChannelSequencePath] = n + 1 /\ x[NextChannelSequencePath] = n
  BY <1>6, PathFacts DEF n
<1>12. \A m \in Chans : y[ChannelEndPath(m)] = IF m = n THEN end ELSE x[ChannelEndPath(m)]
  BY <1>4, <1>6, PathFacts, Kinds
<1>13. ConnPart(y)
  BY <1>0, <1>1, <1>2, <1>10, <1>11, <1>12, ConnPartChannel
<1> QED BY <1>1, <1>4, <1>6, <1>9, <1>13, HandledInv DEF y, H

\* Confirming and closing a channel.
LEMMA ChannelSetInv ==
  ASSUME IInv, NEW n \in Chans, NEW state \in {"open", "closed"},
         Get(ibc, ChannelEndPath(n)) # None,
         Handled(StoreChannel(ibc, n, [Get(ibc, ChannelEndPath(n)) EXCEPT !.state = state]))
  PROVE  IInv'
<1> DEFINE H == CurrentHeight(ibc)
           x == ibc.pending
           old == x[ChannelEndPath(n)]
           end == [old EXCEPT !.state = state]
           t == StoreChannel(ibc, n, end)
           y == t.pending
<1>0. /\ ibc \in Stores /\ x \in State /\ H \in Nat
      /\ ClientPart(x, H, hostCons) /\ ConnPart(x)
      /\ Get(ibc, ChannelEndPath(n)) = old
  BY InvFacts, PathFacts
<1>1. old # None /\ Handled(t)
  BY <1>0
<1>2. old \in ChannelEnds
  BY <1>0, <1>1, PathFacts, ValueFacts DEF State
<1>3. end \in ChannelEnds /\ end.conn = old.conn
  <2> HIDE DEF old
  <2> QED BY <1>2 DEF ChannelEnds
<1>4. x[ConnectionPath(old.conn)] # None
  BY <1>0, <1>1 DEF ConnPart, Connected
<1> HIDE DEF end
<1>5. /\ t \in Stores /\ t.store = ibc.store /\ t.staged = ibc.staged
      /\ \A q \in Paths : Kind(q) # "channelEnds" => y[q] = x[q]
      /\ \A m \in Chans : y[ChannelEndPath(m)] = IF m = n THEN end ELSE x[ChannelEndPath(m)]
  BY <1>0, <1>3, ChannelReads
<1> HIDE DEF t, y, x, H
<1>6. SameClient(x, y)
  <2>1. \A q \in Paths : Kind(q) \notin ConnKinds => y[q] = x[q]
    BY <1>5 DEF ConnKinds
  <2> QED BY <2>1, SameClientKinds
<1>7. ClientPart(y, H, hostCons)
  BY <1>0, <1>6, ClientPartKept
<1>8. /\ y[NextConnectionSequencePath] = x[NextConnectionSequencePath]
      /\ y[NextChannelSequencePath] = x[NextChannelSequencePath]
      /\ \A d \in Clients : y[ClientConnectionPath(d)] = x[ClientConnectionPath(d)]
      /\ \A j \in Conns : y[ConnectionPath(j)] = x[ConnectionPath(j)]
  BY <1>5, PathFacts, Kinds
<1>9. ConnPart(y)
  BY <1>0, <1>1, <1>3, <1>4, <1>5, <1>8, ConnPartChannel
<1> QED BY <1>1, <1>5, <1>7, <1>9, HandledInv DEF y, H
\* The block cycle moves good states from pending to staged, back and to the versions.
LEMMA CycleInv ==
  ASSUME IInv, DeliverTx \/ MsgFails \/ RecoveryPanics \/ ResetAll \/ ApplyAll \/ UNCHANGED vars
  PROVE  IInv'
<1>1. ibc \in StoreOf(State, {0})
  BY DEF IInv, Stores
<1>2. /\ ibc' \in Stores /\ ibc'.store = ibc.store
      /\ ibc'.staged \in {ibc.pending, ibc.staged}
      /\ ibc'.pending \in {ibc.pending, ibc.staged}
      /\ hostCons' = hostCons
  BY <1>1, SettleLemma
     DEF IInv, Stores, DeliverTx, MsgFails, RecoveryPanics, ResetAll, ApplyAll, vars
<1>3. pc' \in {"idle", "block", "tx", "failed", "panicked"} /\ (pc' # "idle" => pc # "idle" \/ pc' = pc)
      /\ halted' = halted
  BY DEF IInv, DeliverTx, MsgFails, RecoveryPanics, ResetAll, ApplyAll, vars
<1>4. CurrentHeight(ibc)' = CurrentHeight(ibc)
  BY <1>2 DEF CurrentHeight
<1>5. \A s \in States' : s \in States
  BY <1>2 DEF States
<1>6. \A s \in States' : Good(s, CurrentHeight(ibc)', hostCons')
  BY <1>2, <1>4, <1>5 DEF IInv
<1> QED BY <1>2, <1>3, <1>4, <1>6 DEF IInv

\* begin_block adds the timestamp of a block that no state refers to yet.
LEMMA BeginBlockInv ==
  ASSUME IInv, BeginBlock
  PROVE  IInv'
<1> DEFINE H == CurrentHeight(ibc)
<1>1. H \in Nat /\ H + 1 \in 1 .. MaxHeight /\ H + 1 \in Nat
  BY InvFacts, IbcAssumption DEF BeginBlock
<1>2. /\ hostCons' = [hostCons EXCEPT ![H + 1] = H + 1]
      /\ ibc' = ibc /\ halted' = halted /\ pc' = "block" /\ H < MaxHeight
  BY DEF BeginBlock
<1>3. hostCons' \in [1 .. MaxHeight -> Nat \cup {None}]
  BY <1>1, <1>2 DEF IInv
<1>4. \A i \in 1 .. H : hostCons'[i] = hostCons[i]
  <2> SUFFICES ASSUME NEW i \in 1 .. H PROVE hostCons'[i] = hostCons[i]
    OBVIOUS
  <2> HIDE DEF H
  <2>1. i \in 1 .. MaxHeight /\ i # H + 1
    BY <1>1, IbcAssumption
  <2> QED BY <1>2, <2>1 DEF IInv
<1>5. States' = States /\ CurrentHeight(ibc)' = H
  BY <1>2 DEF States, CurrentHeight
<1> HIDE DEF H
<1>6. ASSUME NEW s, Good(s, H, hostCons) PROVE Good(s, H, hostCons')
  <2>1. WithMeta(s, H, hostCons)
    BY <1>6 DEF Good, ClientPart
  <2>2. WithMeta(s, H, hostCons')
    BY <1>4, <2>1 DEF WithMeta
  <2> QED BY <1>6, <2>2 DEF Good, ClientPart
<1>7. \A s \in States' : Good(s, H, hostCons')
  BY <1>5, <1>6 DEF IInv, H
<1> QED BY <1>1, <1>2, <1>3, <1>5, <1>7 DEF IInv, H

\* commit makes the staged state a version, one block later.
LEMMA CommitInv ==
  ASSUME IInv, Commit
  PROVE  IInv'
<1> DEFINE H == CurrentHeight(ibc)
           v == ibc.store.vec
           x == ibc.pending
<1>1. /\ ibc \in StoreOf(State, {0}) /\ {0} \in SUBSET Nat /\ H \in Nat
      /\ v \in Seq(State) /\ x \in State
  BY InvFacts DEF Stores, StoreOf, VecOf
<1>2. /\ ibc' = StoreCommit(ibc) /\ pc' = "idle" /\ hostCons' = hostCons /\ halted' = halted
      /\ H < MaxHeight
  BY DEF Commit, IInv
<1>3. /\ ibc' \in Stores /\ CurrentHeight(ibc') = H + 1
      /\ ibc'.store = VecPush(ibc.store, x) /\ ibc'.staged = x /\ ibc'.pending = x
  BY <1>1, <1>2, CommitLemma DEF Stores
<1>4. ibc'.store.vec = Append(v, x)
  BY <1>1, <1>3 DEF VecPush, Stores, StoreOf, VecOf
<1>5. \A s \in States' : s \in States
  <2> SUFFICES ASSUME NEW s \in States' PROVE s \in States
    OBVIOUS
  <2>1. CASE s \in {ibc'.pending, ibc'.staged}
    BY <1>3, <2>1 DEF States
  <2>2. ASSUME NEW i \in 1 .. Len(ibc'.store.vec), s = ibc'.store.vec[i] PROVE s \in States
    <3>1. CASE i \in 1 .. Len(v)
      BY <1>1, <1>4, <2>2, <3>1 DEF States
    <3>2. CASE i \notin 1 .. Len(v)
      <4>1. i = Len(v) + 1
        BY <1>1, <1>4, <3>2
      <4>2. s = x
        BY <1>1, <1>4, <2>2, <4>1
      <4> QED BY <4>2 DEF States
    <3> QED BY <3>1, <3>2
  <2> QED BY <2>1, <2>2 DEF States
<1> HIDE DEF H
<1>6. ASSUME NEW s, Good(s, H, hostCons) PROVE Good(s, H + 1, hostCons)
  <2>1. WithMeta(s, H, hostCons)
    BY <1>6 DEF Good, ClientPart
  <2>2. \A i \in 1 .. H : i \in 1 .. H + 1
    BY <1>1
  <2>3. WithMeta(s, H + 1, hostCons)
    BY <2>1, <2>2 DEF WithMeta
  <2> QED BY <1>6, <2>3 DEF Good, ClientPart
<1>7. \A s \in States' : Good(s, H + 1, hostCons)
  BY <1>5, <1>6 DEF IInv, H
<1>8. H + 1 <= MaxHeight
  BY <1>1, <1>2, IbcAssumption
<1> QED BY <1>2, <1>3, <1>7, <1>8 DEF IInv

\* The first state has three counters, in pending alone, and nothing else.
LEMMA InitReads ==
  ASSUME Init
  PROVE  /\ ibc \in Stores /\ ibc.store = EmptyVec
         /\ ibc.staged \in State /\ \A q \in Paths : ibc.staged[q] = None
         /\ \A q \in Paths : ibc.pending[q] =
              IF q \in {NextClientSequencePath, NextConnectionSequencePath, NextChannelSequencePath}
              THEN 0 ELSE None
<1> DEFINE none == [p \in Paths |-> None]
           s0 == NewStore(none)
           s1 == StoreSet(s0, NextClientSequencePath, 0)
           s2 == StoreSet(s1, NextConnectionSequencePath, 0)
<1>1. none \in State /\ \A p \in Paths : none[p] = None
  BY ValueFacts DEF State
<1> HIDE DEF none
<1>2. /\ s0 \in Stores /\ s0.store = EmptyVec /\ s0.staged = none /\ s0.pending = none
  <2>1. <<>> \in Seq(State)
    OBVIOUS
  <2> QED BY <1>1, <2>1 DEF NewStore, EmptyVec, Stores, StoreOf, VecOf
<1> HIDE DEF s0
<1>3. \A p \in {NextClientSequencePath, NextConnectionSequencePath, NextChannelSequencePath} :
        p \in Paths /\ 0 \in ValuesAt(p)
  BY PathFacts, ValueFacts
<1>4. /\ s1 \in Stores /\ s1.store = EmptyVec /\ s1.staged = none
      /\ \A q \in Paths : s1.pending[q] = IF q = NextClientSequencePath THEN 0 ELSE None
  BY <1>1, <1>2, <1>3, SetLemma
<1> HIDE DEF s1
<1>5. /\ s2 \in Stores /\ s2.store = EmptyVec /\ s2.staged = none
      /\ \A q \in Paths : s2.pending[q] =
           IF q \in {NextClientSequencePath, NextConnectionSequencePath} THEN 0 ELSE None
  BY <1>3, <1>4, SetLemma
<1> HIDE DEF s2
<1>6. ibc = StoreSet(s2, NextChannelSequencePath, 0)
  BY DEF Init, s0, s1, s2, none
<1>7. /\ ibc \in Stores /\ ibc.store = EmptyVec /\ ibc.staged = none
      /\ \A q \in Paths : ibc.pending[q] =
           IF q \in {NextClientSequencePath, NextConnectionSequencePath, NextChannelSequencePath}
           THEN 0 ELSE None
  BY <1>3, <1>5, <1>6, SetLemma
<1> QED BY <1>1, <1>7

\* It is good.
LEMMA InitInv == Init => IInv
<1> SUFFICES ASSUME Init PROVE IInv
  OBVIOUS
<1> DEFINE none == ibc.staged
           x == ibc.pending
<1>1. none \in State /\ \A q \in Paths : none[q] = None
  BY InitReads
<1>3. \A p \in {NextClientSequencePath, NextConnectionSequencePath, NextChannelSequencePath} :
        p \in Paths
  BY PathFacts
<1>7. /\ ibc \in Stores /\ ibc.store = EmptyVec
      /\ \A q \in Paths : x[q] =
           IF q \in {NextClientSequencePath, NextConnectionSequencePath, NextChannelSequencePath}
           THEN 0 ELSE None
  BY InitReads
<1>8. CurrentHeight(ibc) = 0 /\ ibc.store.vec = <<>>
  BY <1>7 DEF CurrentHeight, OriginalLength, EmptyVec
<1>9. ASSUME NEW s \in {x, none} PROVE Good(s, 0, hostCons)
  <2>1. \A q \in Paths : q \notin {NextClientSequencePath, NextConnectionSequencePath,
                                    NextChannelSequencePath} => s[q] = None
    BY <1>1, <1>7
  <2>2. /\ \A c \in Clients : s[ClientStatePath(c)] = None /\ s[ClientConnectionPath(c)] = None
        /\ \A c \in Clients, h \in Heights :
             /\ s[ClientConsensusStatePath(c, h)] = None
             /\ s[ClientUpdateTimePath(c, h)] = None
             /\ s[ClientUpdateHeightPath(c, h)] = None
        /\ \A k \in Conns : s[ConnectionPath(k)] = None
        /\ \A n \in Chans : s[ChannelEndPath(n)] = None
    BY <2>1, PathFacts, Kinds
  <2>3. \A p \in {NextClientSequencePath, NextConnectionSequencePath, NextChannelSequencePath} :
          s[p] = None \/ s[p] = 0
    BY <1>1, <1>3, <1>7
  <2>4. \A n \in Nat : \A counter : counter = None \/ counter = 0 => ~Below(n, counter)
    BY DEF Below
  <2>5. ClientIds(s) /\ ConnIds(s) /\ ChanIds(s)
    <3>1. /\ \A c \in Clients : c \in Nat
          /\ \A c \in Conns : c \in Nat
          /\ \A c \in Chans : c \in Nat
      BY IbcAssumption DEF Clients, Conns, Chans
    <3> QED BY <2>2, <2>3, <2>4, <3>1 DEF ClientIds, ConnIds, ChanIds
  <2>6. WithMeta(s, 0, hostCons) /\ LatestKept(s) /\ NoOrphans(s) /\ Connected(s)
    BY <2>2 DEF WithMeta, LatestKept, NoOrphans, Connected
  <2> QED BY <2>5, <2>6 DEF Good, ClientPart, ConnPart
<1>10. States = {x, none}
  BY <1>7, <1>8 DEF States
<1>11. hostCons \in [1 .. MaxHeight -> Nat \cup {None}] /\ pc = "idle" /\ halted = FALSE
  BY DEF Init
<1>12. CurrentHeight(ibc) <= MaxHeight
  BY <1>8, IbcAssumption
<1> HIDE DEF x, none
<1>13. \A s \in States : Good(s, CurrentHeight(ibc), hostCons)
  BY <1>8, <1>9, <1>10
<1> QED BY <1>7, <1>11, <1>12, <1>13 DEF IInv

\* One step per action.
LEMMA StepInv == IInv /\ [Next]_vars => IInv'
<1> SUFFICES ASSUME IInv, [Next]_vars PROVE IInv'
  OBVIOUS
<1>1. CASE BeginBlock
  BY <1>1, BeginBlockInv
<1>2. CASE DeliverTx \/ MsgFails \/ RecoveryPanics \/ ResetAll \/ ApplyAll \/ UNCHANGED vars
  BY <1>2, CycleInv
<1>3. ASSUME NEW h \in Heights, CreateClient(h) PROVE IInv'
  BY <1>3, CreateInv
<1>4. ASSUME NEW c \in Clients, NEW h \in Heights, NEW oldest \in Heights,
             UpdateKnown(c, h, oldest) \/ UpdateClient(c, h, oldest)
      PROVE  IInv'
  BY <1>4, UpdateKnownInv, UpdateInv
<1>5. ASSUME NEW c \in Clients, Misbehaviour(c) PROVE IInv'
  BY <1>5, MisbehaviourInv
<1>6. ASSUME NEW c \in Clients, NEW d \in Clients, RecoverClient(c, d) PROVE IInv'
  BY <1>6, RecoverInv
<1>7. ASSUME NEW k \in Conns, NEW c \in Clients, ConnectionOpen(c, k) PROVE IInv'
  BY <1>7, ConnectionOpenInv
<1>8. ASSUME NEW k \in Conns, ConnectionConfirm(k) \/ ChannelOpen(k) PROVE IInv'
  BY <1>8, ConnectionConfirmInv, ChannelOpenInv
<1>9. ASSUME NEW n \in Chans, ChannelConfirm(n) PROVE IInv'
  BY <1>9, ChannelSetInv DEF ChannelConfirm
<1>10. ASSUME NEW n \in Chans, ChannelClose(n) PROVE IInv'
  BY <1>10, ChannelSetInv DEF ChannelClose
<1>11. CASE Commit
  BY <1>11, CommitInv
<1> QED BY <1>1, <1>2, <1>3, <1>4, <1>5, <1>6, <1>7, <1>8, <1>9, <1>10, <1>11 DEF Next

\* The invariant holds in every state of every behaviour.
LEMMA Invariance == Spec => []IInv
  BY InitInv, StepInv, PTL DEF Spec

-----------------------------------------------------------------------------
\* Entries decode at their paths in every state that anyone reads.
THEOREM TypeCorrect == Spec => []TypeOK
<1>1. IInv => TypeOK
  <2> SUFFICES ASSUME IInv PROVE TypeOK
    OBVIOUS
  <2>1. ASSUME NEW s \in States PROVE s \in State
    BY DEF States, IInv, Stores, StoreOf, VecOf
  <2> QED BY <2>1 DEF IInv, TypeOK, State
<1> QED BY <1>1, Invariance, PTL

\* Identifiers of clients, connections and channels are given out once each,
\* without gaps, for any number of rolled back transactions.
THEOREM IdsAreDense == Spec => []IdsBelowCounters
<1>1. IInv => IdsBelowCounters
  BY DEF IInv, Good, ClientPart, ConnPart, ClientIds, ConnIds, ChanIds, IdsBelowCounters
<1> QED BY <1>1, Invariance, PTL

\* Consensus states and their update meta come and go together, with the host
\* time of the block they were processed in.
THEOREM MetaAccompaniesStates == Spec => []MetaWithState
<1>1. IInv => MetaWithState
  BY DEF IInv, Good, ClientPart, WithMeta, MetaWithState
<1> QED BY <1>1, Invariance, PTL

\* No order of headers, pruning, freezing and recovery loses the consensus
\* state of a client's latest height.
THEOREM LatestIsStored == Spec => []LatestStored
<1>1. IInv => LatestStored
  BY DEF IInv, Good, ClientPart, LatestKept, LatestStored
<1> QED BY <1>1, Invariance, PTL

\* Every connection is listed exactly once, with its client.
THEOREM ConnectionsAreListed == Spec => []ConnectionsListed
<1>1. IInv => ConnectionsListed
  BY DEF IInv, Good, ConnPart, Connected, ConnectionsListed
<1> QED BY <1>1, Invariance, PTL
-----------------------------------------------------------------------------
(* Listings of relayers                                                    *)

\* What a listing shows is there, or was and is no longer, as happens to
\* consensus states below the latest height of their client.
Alive(s, p) ==
  \/ s[p] # None
  \/ /\ p[1] = "consensusStates"
     /\ s[ClientStatePath(p[2])] # None
     /\ p[3] < s[ClientStatePath(p[2])].latest

\* The states agree on whatever listings show.
Agree(x, y) == \A p \in Paths : p[1] \in DOMAIN Under => x[p] = y[p]

\* As many as their numbers, from zero on.
Numbered(keys) == {p[2] : p \in keys} = 0 .. Cardinality(keys) - 1

Listings == [kind : DOMAIN Under \cup {"none"}, keys : SUBSET Paths, left : SUBSET Paths,
             missing : BOOLEAN, saw : {"applied", "running", "undone"}]

\* The inductive invariant: besides that of the chain, what a listing has
\* seen stays alive in the pending state as long as it is not undone, and in
\* the staged one, to which a failing transaction goes back, if it was applied.
ListingInv ==
  /\ listing \in Listings
  /\ pc \in {"idle", "block"} => Agree(ibc.pending, ibc.staged)
  /\ listing.kind # "none" =>
       /\ \A p \in listing.keys : p[1] = listing.kind
       /\ listing.left \subseteq listing.keys
       /\ listing.saw # "undone" => \A p \in listing.keys : Alive(ibc.pending, p)
       /\ listing.saw = "applied" => \A p \in listing.keys : Alive(ibc.staged, p)
       /\ listing.saw = "running" => pc \in Unsettled
       /\ listing.saw # "undone" /\ listing.missing => listing.kind = "consensusStates"
       /\ listing.kind # "consensusStates" => Numbered(listing.keys)

-----------------------------------------------------------------------------
(* Which paths a listing shows, and in which order                         *)

\* What a path of each kind in a listing looks like.
LEMMA PathForms ==
  ASSUME NEW p \in Paths
  PROVE  /\ p[2] \in Nat /\ p[3] \in 0 .. 99
         /\ p[1] = "clientState" => \E c \in Clients : p = ClientStatePath(c)
         /\ p[1] = "consensusStates" =>
              \E c \in Clients, h \in Heights : p = ClientConsensusStatePath(c, h)
         /\ p[1] = "connections" => \E k \in Conns : p = ConnectionPath(k)
         /\ p[1] = "channelEnds" => \E n \in Chans : p = ChannelEndPath(n)
<1>0. /\ \A c \in Clients : c \in Nat
      /\ \A k \in Conns : k \in Nat
      /\ \A n \in Chans : n \in Nat
      /\ \A h \in Heights : h \in 0 .. 99
  BY IbcAssumption DEF Clients, Conns, Chans
<1>1. CASE p \in {NextClientSequencePath, NextConnectionSequencePath, NextChannelSequencePath}
  BY <1>1 DEF NextClientSequencePath, NextConnectionSequencePath, NextChannelSequencePath
<1>2. CASE \E c \in Clients : p = ClientStatePath(c) \/ p = ClientConnectionPath(c)
  BY <1>0, <1>2 DEF ClientStatePath, ClientConnectionPath
<1>3. CASE \E c \in Clients, h \in Heights :
             \/ p = ClientConsensusStatePath(c, h)
             \/ p = ClientUpdateTimePath(c, h)
             \/ p = ClientUpdateHeightPath(c, h)
  BY <1>0, <1>3 DEF ClientConsensusStatePath, ClientUpdateTimePath, ClientUpdateHeightPath
<1>4. CASE \E k \in Conns : p = ConnectionPath(k)
  BY <1>0, <1>4 DEF ConnectionPath
<1>5. CASE \E n \in Chans : p = ChannelEndPath(n)
  BY <1>0, <1>5 DEF ChannelEndPath
<1> QED BY <1>1, <1>2, <1>3, <1>4, <1>5 DEF Paths

\* The entry that is read next is one of those that are left.
LEMMA FirstPathIn ==
  ASSUME NEW S \in SUBSET Paths, S # {}
  PROVE  FirstPath(S) \in S
<1> DEFINE Ids == {p[2] : p \in S}
           i == Min(Ids)
           Ranks == {LexRank(p[3]) : p \in {q \in S : q[2] = i}}
           r == Min(Ranks)
<1>1. \A p \in S : p[2] \in Nat /\ LexRank(p[3]) \in Nat
  <2> SUFFICES ASSUME NEW p \in S PROVE p[2] \in Nat /\ LexRank(p[3]) \in Nat
    OBVIOUS
  <2>1. p[2] \in Nat /\ p[3] \in 0 .. 99
    BY PathForms
  <2>2. \A h \in 0 .. 99 : LexRank(h) \in Nat
    BY DEF LexRank
  <2> QED BY <2>1, <2>2
<1>2. i \in Ids /\ \A y \in Ids : i <= y
  <2>1. Ids \in SUBSET Nat /\ Ids # {}
    BY <1>1
  <2> HIDE DEF Ids
  <2> QED BY <2>1, MinIn
<1> HIDE DEF i
<1>3. r \in Ranks /\ \A y \in Ranks : r <= y
  <2>1. Ranks \in SUBSET Nat /\ Ranks # {}
    BY <1>1, <1>2
  <2> HIDE DEF Ranks
  <2> QED BY <2>1, MinIn
<1> HIDE DEF r
<1>4. PICK p \in S : p[2] = i /\ LexRank(p[3]) = r
  BY <1>3
<1>5. ASSUME NEW q \in S
      PROVE  p[2] < q[2] \/ (p[2] = q[2] /\ LexRank(p[3]) <= LexRank(q[3]))
  <2>1. i <= q[2] /\ i \in Nat /\ q[2] \in Nat
    BY <1>1, <1>2, <1>4
  <2>2. CASE q[2] = i
    <3>1. LexRank(q[3]) \in Ranks
      BY <2>2
    <3> HIDE DEF Ranks
    <3> QED BY <1>3, <1>4, <2>2, <3>1
  <2>3. CASE q[2] # i
    BY <1>4, <2>1, <2>3
  <2> QED BY <2>2, <2>3
<1> QED BY <1>5 DEF FirstPath

\* The first m keys of a kind.
FirstKeys(kind, m) == {<<kind, i, 0>> : i \in 0 .. m - 1}

\* Keys that are numbered from zero on are as many as their numbers.
LEMMA NumberedKeys ==
  ASSUME NEW kind, NEW m \in Nat
  PROVE  Numbered(FirstKeys(kind, m))
<1> DEFINE keys == FirstKeys(kind, m)
           f == [i \in 0 .. m - 1 |-> <<kind, i, 0>>]
<1>1. f \in Bijection(0 .. m - 1, keys)
  BY DEF Bijection, Injection, Surjection, IsInjective, FirstKeys
<1>2. IsFiniteSet(0 .. m - 1) /\ Cardinality(0 .. m - 1) = m
  BY FS_Interval
<1>3. Cardinality(keys) = m
  <2>1. ExistsBijection(0 .. m - 1, keys)
    BY <1>1 DEF ExistsBijection
  <2> QED BY <1>2, <2>1, FS_Bijection
<1>4. ASSUME NEW n \in 0 .. m - 1 PROVE n \in {p[2] : p \in keys}
  <2>1. <<kind, n, 0>> \in keys
    BY DEF FirstKeys
  <2>2. <<kind, n, 0>>[2] = n
    OBVIOUS
  <2> HIDE DEF keys
  <2> QED BY <2>1, <2>2
<1>5. ASSUME NEW p \in keys PROVE p[2] \in 0 .. m - 1
  BY DEF FirstKeys
<1> HIDE DEF keys
<1>6. {p[2] : p \in keys} = 0 .. m - 1
  BY <1>4, <1>5
<1> QED BY <1>3, <1>6 DEF Numbered, keys

\* The keys of what is numbered without gaps, below a counter.
LEMMA KeysBelow ==
  ASSUME NEW kind, NEW s, NEW N \in Nat, NEW keys, NEW counter \in Nat \cup {None},
         \A i \in 0 .. N - 1 : s[<<kind, i, 0>>] # None <=> Below(i, counter),
         \A p : p \in keys <=> p \in FirstKeys(kind, N) /\ s[p] # None
  PROVE  Numbered(keys)
<1> DEFINE m == IF counter = None THEN 0 ELSE IF counter < N THEN counter ELSE N
<1>1. m \in Nat
  OBVIOUS
<1>2. \A i \in 0 .. N - 1 : Below(i, counter) <=> i < m
  BY DEF Below
<1>3. \A i : i \in 0 .. m - 1 <=> i \in 0 .. N - 1 /\ i < m
  OBVIOUS
<1> HIDE DEF m
<1>4. ASSUME NEW p PROVE p \in keys <=> p \in FirstKeys(kind, m)
  BY <1>2, <1>3 DEF FirstKeys
<1>5. keys = FirstKeys(kind, m)
  BY <1>4
<1> QED BY <1>1, <1>5, NumberedKeys

-----------------------------------------------------------------------------
(* What a message may take away                                            *)

\* From x to y clients, connections and channels stay, the latest height of a
\* client does not go back, and no consensus state goes but those below it.
Extends(x, y) ==
  /\ \A c \in Clients : x[ClientStatePath(c)] # None =>
       /\ y[ClientStatePath(c)] # None
       /\ x[ClientStatePath(c)].latest <= y[ClientStatePath(c)].latest
  /\ \A c \in Clients, h \in Heights : x[ClientConsensusStatePath(c, h)] # None =>
       \/ y[ClientConsensusStatePath(c, h)] # None
       \/ y[ClientStatePath(c)] # None /\ h < y[ClientStatePath(c)].latest
  /\ \A k \in Conns : x[ConnectionPath(k)] # None => y[ConnectionPath(k)] # None
  /\ \A n \in Chans : x[ChannelEndPath(n)] # None => y[ChannelEndPath(n)] # None

\* A state has states of clients and heights where it has anything.
LEMMA LatestType ==
  ASSUME NEW x \in State, NEW c \in Clients, x[ClientStatePath(c)] # None
  PROVE  /\ x[ClientStatePath(c)] \in ClientStates
         /\ x[ClientStatePath(c)].latest \in Heights
         /\ x[ClientStatePath(c)].latest \in Nat
<1>1. x[ClientStatePath(c)] \in ClientStates
  BY PathFacts, ValueFacts DEF State
<1> QED BY <1>1, HeightFacts DEF ClientStates

\* What a listing shows of a state stays alive in one that extends it.
LEMMA AliveExtends ==
  ASSUME NEW x \in State, NEW y \in State, Extends(x, y),
         NEW p \in Paths, p[1] \in DOMAIN Under, Alive(x, p)
  PROVE  Alive(y, p)
<1>1. p[1] \in {"clientState", "consensusStates", "connections", "channelEnds"}
  BY DEF Under
<1>2. CASE p[1] = "clientState"
  <2>1. PICK c \in Clients : p = ClientStatePath(c)
    BY <1>2, PathForms
  <2> QED BY <1>2, <2>1 DEF Alive, Extends
<1>3. CASE p[1] = "consensusStates"
  <2>1. PICK c \in Clients, h \in Heights : p = ClientConsensusStatePath(c, h)
    BY <1>3, PathForms
  <2>2. p[2] = c /\ p[3] = h /\ h \in Nat
    BY <2>1, HeightFacts DEF ClientConsensusStatePath
  <2>3. CASE x[p] # None
    BY <1>3, <2>1, <2>2, <2>3 DEF Alive, Extends
  <2>4. CASE x[ClientStatePath(c)] # None /\ h < x[ClientStatePath(c)].latest
    <3>1. /\ y[ClientStatePath(c)] # None
          /\ x[ClientStatePath(c)].latest <= y[ClientStatePath(c)].latest
      BY <2>4 DEF Extends
    <3>2. x[ClientStatePath(c)].latest \in Nat /\ y[ClientStatePath(c)].latest \in Nat
      BY <2>4, <3>1, LatestType
    <3>3. h < y[ClientStatePath(c)].latest
      BY <2>2, <2>4, <3>1, <3>2
    <3> QED BY <1>3, <2>2, <3>1, <3>3 DEF Alive
  <2> QED BY <2>2, <2>3, <2>4 DEF Alive
<1>4. CASE p[1] = "connections"
  <2>1. PICK k \in Conns : p = ConnectionPath(k)
    BY <1>4, PathForms
  <2> QED BY <1>4, <2>1 DEF Alive, Extends
<1>5. CASE p[1] = "channelEnds"
  <2>1. PICK n \in Chans : p = ChannelEndPath(n)
    BY <1>5, PathForms
  <2> QED BY <1>5, <2>1 DEF Alive, Extends
<1> QED BY <1>1, <1>2, <1>3, <1>4, <1>5

\* A state extends itself.
LEMMA ExtendsItself == ASSUME NEW x \in State PROVE Extends(x, x)
<1>1. ASSUME NEW c \in Clients, x[ClientStatePath(c)] # None
      PROVE  x[ClientStatePath(c)].latest <= x[ClientStatePath(c)].latest
  BY <1>1, LatestType
<1> QED BY <1>1 DEF Extends

\* ... and what extends an extension extends the state.
LEMMA ExtendsOn ==
  ASSUME NEW x \in State, NEW y \in State, NEW z \in State, Extends(x, y), Extends(y, z)
  PROVE  Extends(x, z)
<1>1. ASSUME NEW c \in Clients, x[ClientStatePath(c)] # None
      PROVE  /\ z[ClientStatePath(c)] # None
             /\ x[ClientStatePath(c)].latest <= z[ClientStatePath(c)].latest
  <2>1. /\ y[ClientStatePath(c)] # None /\ z[ClientStatePath(c)] # None
        /\ x[ClientStatePath(c)].latest <= y[ClientStatePath(c)].latest
        /\ y[ClientStatePath(c)].latest <= z[ClientStatePath(c)].latest
    BY <1>1 DEF Extends
  <2>2. /\ x[ClientStatePath(c)].latest \in Nat
        /\ y[ClientStatePath(c)].latest \in Nat
        /\ z[ClientStatePath(c)].latest \in Nat
    BY <1>1, <2>1, LatestType
  <2> QED BY <2>1, <2>2
<1>2. ASSUME NEW c \in Clients, NEW h \in Heights, x[ClientConsensusStatePath(c, h)] # None
      PROVE  \/ z[ClientConsensusStatePath(c, h)] # None
             \/ z[ClientStatePath(c)] # None /\ h < z[ClientStatePath(c)].latest
  <2>1. CASE y[ClientConsensusStatePath(c, h)] # None
    BY <2>1 DEF Extends
  <2>2. CASE y[ClientStatePath(c)] # None /\ h < y[ClientStatePath(c)].latest
    <3>1. /\ z[ClientStatePath(c)] # None
          /\ y[ClientStatePath(c)].latest <= z[ClientStatePath(c)].latest
      BY <2>2 DEF Extends
    <3>2. /\ y[ClientStatePath(c)].latest \in Nat
          /\ z[ClientStatePath(c)].latest \in Nat /\ h \in Nat
      BY <2>2, <3>1, LatestType, HeightFacts
    <3> QED BY <2>2, <3>1, <3>2
  <2> QED BY <1>2, <2>1, <2>2 DEF Extends
<1>3. \A k \in Conns : x[ConnectionPath(k)] # None => z[ConnectionPath(k)] # None
  BY DEF Extends
<1>4. \A n \in Chans : x[ChannelEndPath(n)] # None => z[ChannelEndPath(n)] # None
  BY DEF Extends
<1> QED BY <1>1, <1>2, <1>3, <1>4 DEF Extends

\* A store whose pending state has been extended, and nothing else been done to it.
Onward(s, t) == /\ t \in Stores /\ t.pending \in State /\ t.staged = s.staged
                /\ Extends(s.pending, t.pending)

\* One step onward after another.
LEMMA OnwardOn ==
  ASSUME NEW s \in Stores, NEW t, NEW u, Onward(s, t), Onward(t, u)
  PROVE  Onward(s, u)
<1>1. s.pending \in State
  BY DEF Stores, StoreOf
<1> QED BY <1>1, ExtendsOn DEF Onward

\* A write extends the state, unless it takes a client back.
LEMMA SetExtends ==
  ASSUME NEW s \in Stores, NEW p \in Paths, NEW v \in ValuesAt(p), v # None,
         \A c \in Clients : p = ClientStatePath(c) /\ s.pending[p] # None =>
                              s.pending[p].latest <= v.latest
  PROVE  Onward(s, StoreSet(s, p, v))
<1> DEFINE t == StoreSet(s, p, v)
           x == s.pending
           y == t.pending
<1>1. t \in Stores /\ t.staged = s.staged /\ \A q \in Paths : y[q] = IF q = p THEN v ELSE x[q]
  BY SetLemma
<1>2. x \in State /\ y \in State
  BY <1>1 DEF Stores, StoreOf
<1> HIDE DEF t, y
<1>3. \A q \in Paths : x[q] # None => y[q] # None
  BY <1>1
<1>4. ASSUME NEW c \in Clients, x[ClientStatePath(c)] # None
      PROVE  x[ClientStatePath(c)].latest <= y[ClientStatePath(c)].latest
  <2>1. x[ClientStatePath(c)].latest <= x[ClientStatePath(c)].latest
    <3> HIDE DEF x
    <3> QED BY <1>2, <1>4, LatestType
  <2> QED BY <1>1, <1>4, <2>1, PathFacts
<1> HIDE DEF x
<1>5. Extends(x, y)
  BY <1>3, <1>4, PathFacts DEF Extends
<1> QED BY <1>1, <1>2, <1>5 DEF Onward, t, y, x

\* Removing old states of a client, all below its latest one.
LEMMA PrunedExtends ==
  ASSUME NEW s \in Stores, NEW c \in Clients, NEW oldest \in Heights,
         s.pending[ClientStatePath(c)] # None,
         oldest <= s.pending[ClientStatePath(c)].latest
  PROVE  Onward(s, Pruned(s, c, oldest))
<1> DEFINE t == Pruned(s, c, oldest)
           x == s.pending
           y == t.pending
           Gone(d, g) == d = c /\ g < oldest /\ x[ClientConsensusStatePath(c, g)] # None
<1>1. /\ t \in Stores /\ t.staged = s.staged
      /\ \A d \in Clients : y[ClientStatePath(d)] = x[ClientStatePath(d)]
      /\ \A d \in Clients, g \in Heights : y[ClientConsensusStatePath(d, g)] =
           IF Gone(d, g) THEN None ELSE x[ClientConsensusStatePath(d, g)]
      /\ SameConn(x, y)
  BY PrunedReads
<1>2. x \in State /\ y \in State
  BY <1>1 DEF Stores, StoreOf
<1>3. x[ClientStatePath(c)] # None /\ oldest <= x[ClientStatePath(c)].latest
  OBVIOUS
<1> HIDE DEF Onward, t, y, x
<1>4. ASSUME NEW d \in Clients, x[ClientStatePath(d)] # None
      PROVE  /\ y[ClientStatePath(d)] # None
             /\ x[ClientStatePath(d)].latest <= y[ClientStatePath(d)].latest
  BY <1>1, <1>2, <1>4, LatestType
<1>5. ASSUME NEW d \in Clients, NEW g \in Heights, x[ClientConsensusStatePath(d, g)] # None,
             y[ClientConsensusStatePath(d, g)] = None
      PROVE  y[ClientStatePath(d)] # None /\ g < y[ClientStatePath(d)].latest
  <2>1. d = c /\ g < oldest
    BY <1>1, <1>5
  <2>2. x[ClientStatePath(c)].latest \in Nat /\ oldest \in Nat /\ g \in Nat
    BY <1>2, <1>3, LatestType, HeightFacts
  <2>3. g < x[ClientStatePath(c)].latest
    BY <1>3, <2>1, <2>2
  <2> QED BY <1>1, <1>3, <2>1, <2>3
<1>6. Extends(x, y)
  BY <1>1, <1>4, <1>5 DEF Extends, SameConn
<1> QED BY <1>1, <1>2, <1>6 DEF Onward, t, y, x

\* Storing a client, whose latest height does not go back.
LEMMA StoreClientExtends ==
  ASSUME NEW s \in Stores, NEW c \in Clients, NEW state \in ClientStates, NEW h \in Heights,
         HostTimestamp(s) \in Nat, HostHeight(s) \in Nat,
         s.pending[ClientStatePath(c)] # None =>
           s.pending[ClientStatePath(c)].latest <= state.latest
  PROVE  Onward(s, StoreClient(s, c, state, h))
<1> DEFINE t == StoreClient(s, c, state, h)
           x == s.pending
           y == t.pending
<1>1. /\ t \in Stores /\ t.staged = s.staged
      /\ \A d \in Clients : y[ClientStatePath(d)] = IF d = c THEN state ELSE x[ClientStatePath(d)]
      /\ \A d \in Clients, g \in Heights : y[ClientConsensusStatePath(d, g)] =
           IF d = c /\ g = h THEN h ELSE x[ClientConsensusStatePath(d, g)]
      /\ SameConn(x, y)
  BY ClientReads
<1>2. x \in State /\ y \in State
  BY <1>1 DEF Stores, StoreOf
<1>3. x[ClientStatePath(c)] # None => x[ClientStatePath(c)].latest <= state.latest
  OBVIOUS
<1>4. state # None /\ h # None
  BY NoneAssumption, HeightFacts
<1> HIDE DEF Onward, t, y, x
<1>5. ASSUME NEW d \in Clients, x[ClientStatePath(d)] # None
      PROVE  /\ y[ClientStatePath(d)] # None
             /\ x[ClientStatePath(d)].latest <= y[ClientStatePath(d)].latest
  BY <1>1, <1>2, <1>3, <1>4, <1>5, LatestType
<1>6. \A d \in Clients, g \in Heights :
        x[ClientConsensusStatePath(d, g)] # None => y[ClientConsensusStatePath(d, g)] # None
  BY <1>1, <1>4
<1>7. Extends(x, y)
  BY <1>1, <1>5, <1>6 DEF Extends, SameConn
<1> QED BY <1>1, <1>2, <1>7 DEF Onward, t, y, x

-----------------------------------------------------------------------------
(* Every message leads onward                                              *)

\* Writing a counter, a connection, a list of connections or a channel.
LEMMA OtherSetExtends ==
  ASSUME NEW s \in Stores, NEW p \in Paths, NEW v \in ValuesAt(p), v # None,
         Kind(p) # "clientState"
  PROVE  Onward(s, StoreSet(s, p, v))
<1>1. \A c \in Clients : p # ClientStatePath(c)
  BY Kinds
<1> QED BY <1>1, SetExtends

\* create_client
LEMMA CreateOnward ==
  ASSUME IInv, NEW h \in Heights, CreateClient(h)
  PROVE  Onward(ibc, ibc')
<1> DEFINE c == Get(ibc, NextClientSequencePath)
           state == [latest |-> h, frozen |-> FALSE]
           s == StoreClient(ibc, c, state, h)
<1>1. /\ HostTimestamp(ibc) # None /\ c \in Clients /\ ClientState(ibc, c) = None
      /\ ibc' = IncreaseClientCounter(s)
  BY DEF CreateClient, Handled
<1>2. /\ ibc \in Stores /\ HostTimestamp(ibc) \in Nat /\ HostHeight(ibc) \in Nat
      /\ ibc.pending[ClientStatePath(c)] = None
      /\ c = ibc.pending[NextClientSequencePath]
  BY <1>1, InvFacts, PathFacts DEF ClientState
<1>3. state \in ClientStates
  BY DEF ClientStates
<1> HIDE DEF c, state
<1>4. Onward(ibc, s)
  BY <1>1, <1>2, <1>3, StoreClientExtends
<1>5. s.pending[NextClientSequencePath] = c
  BY <1>1, <1>2, <1>3, ClientReads
<1> HIDE DEF s
<1>6. s \in Stores
  BY <1>4 DEF Onward
<1>7. Get(s, NextClientSequencePath) = c
  BY <1>5, <1>6, GetLemma, PathFacts
<1>8. c + 1 \in ValuesAt(NextClientSequencePath) /\ c + 1 # None
  <2>1. c + 1 \in Nat
    BY <1>1, IbcAssumption DEF Clients
  <2> QED BY <2>1, ValueFacts, NoneAssumption
<1>9. Onward(s, StoreSet(s, NextClientSequencePath, c + 1))
  BY <1>6, <1>8, PathFacts, Kinds, OtherSetExtends
<1> QED BY <1>1, <1>2, <1>4, <1>7, <1>9, OnwardOn DEF IncreaseClientCounter

\* What a verified header and evidence say of a client.
LEMMA ActiveFacts ==
  ASSUME IInv, NEW c \in Clients, ClientState(ibc, c) # None
  PROVE  /\ ibc \in Stores
         /\ ClientState(ibc, c) = ibc.pending[ClientStatePath(c)]
         /\ ClientState(ibc, c) \in ClientStates
         /\ ClientState(ibc, c).latest \in Heights
         /\ ClientState(ibc, c).latest \in Nat
<1>1. ibc \in Stores /\ ibc.pending \in State
      /\ ClientState(ibc, c) = ibc.pending[ClientStatePath(c)]
  BY InvFacts, PathFacts DEF ClientState
<1> QED BY <1>1, LatestType

\* A client's state with the same latest height: frozen.
LEMMA FreezeOnward ==
  ASSUME IInv, NEW c \in Clients, NEW state \in ClientStates,
         ClientState(ibc, c) # None, state.latest = ClientState(ibc, c).latest
  PROVE  Onward(ibc, StoreClientState(ibc, c, state))
<1>1. /\ ibc \in Stores
      /\ ClientState(ibc, c) = ibc.pending[ClientStatePath(c)]
      /\ ClientState(ibc, c).latest \in Nat
  BY ActiveFacts
<1>2. ClientStatePath(c) \in Paths /\ state \in ValuesAt(ClientStatePath(c)) /\ state # None
  BY PathFacts, ValueFacts, NoneAssumption
<1>3. \A d \in Clients : ClientStatePath(c) = ClientStatePath(d)
                           => ibc.pending[ClientStatePath(c)].latest <= state.latest
  BY <1>1
<1> QED BY <1>1, <1>2, <1>3, SetExtends DEF StoreClientState

\* update_client with a header that the client has.
LEMMA UpdateKnownOnward ==
  ASSUME IInv, NEW c \in Clients, NEW h \in Heights, NEW oldest \in Heights,
         UpdateKnown(c, h, oldest)
  PROVE  Onward(ibc, ibc')
<1>1. /\ ClientState(ibc, c) # None /\ oldest <= ClientState(ibc, c).latest
      /\ ibc' = Pruned(ibc, c, oldest)
  BY DEF UpdateKnown, Verified, Active, Handled
<1> QED BY <1>1, ActiveFacts, PrunedExtends

\* update_client with a new header: frozen, or pruned and stored, or halted.
LEMMA UpdateOnward ==
  ASSUME IInv, NEW c \in Clients, NEW h \in Heights, NEW oldest \in Heights,
         UpdateClient(c, h, oldest)
  PROVE  Onward(ibc, ibc')
<1> DEFINE latest == ClientState(ibc, c).latest
           state == [latest |-> IF h > latest THEN h ELSE latest, frozen |-> FALSE]
           s == Pruned(ibc, c, oldest)
<1>1. /\ HostTimestamp(ibc) # None /\ ClientState(ibc, c) # None /\ oldest <= latest
  BY DEF UpdateClient, Verified, Active
<1>2. /\ ibc \in Stores /\ ibc.pending \in State
      /\ ClientState(ibc, c) = ibc.pending[ClientStatePath(c)]
      /\ latest \in Heights /\ latest \in Nat /\ h \in Nat
  BY <1>1, InvFacts, ActiveFacts, HeightFacts
<1>3. CASE PrevPanics(ibc, c, h)
  <2>1. ibc' = ibc
    BY <1>3 DEF UpdateClient, Halts
  <2> QED BY <1>2, <2>1, ExtendsItself DEF Onward
<1>4. CASE ~PrevPanics(ibc, c, h) /\ LooksWrong(c, h)
  <2> DEFINE frozen == [latest |-> latest, frozen |-> TRUE]
  <2>1. ibc' = StoreClientState(ibc, c, frozen)
    BY <1>4 DEF UpdateClient, Handled
  <2>2. frozen \in ClientStates /\ frozen.latest = latest
    <3> HIDE DEF latest
    <3> QED BY <1>2 DEF ClientStates
  <2> HIDE DEF frozen
  <2> QED BY <1>1, <2>1, <2>2, FreezeOnward
<1>5. CASE ~PrevPanics(ibc, c, h) /\ ~LooksWrong(c, h)
  <2>1. ibc' = StoreClient(s, c, state, h)
    BY <1>5 DEF UpdateClient, Handled
  <2>2. Onward(ibc, s)
    BY <1>1, <1>2, PrunedExtends
  <2>3. /\ s.store = ibc.store
        /\ s.pending[ClientStatePath(c)] = ibc.pending[ClientStatePath(c)]
    BY <1>2, PrunedReads
  <2>4. HostHeight(s) = HostHeight(ibc) /\ HostTimestamp(s) = HostTimestamp(ibc)
    BY <2>3 DEF HostHeight, HostTimestamp, CurrentHeight
  <2>5. HostTimestamp(s) \in Nat /\ HostHeight(s) \in Nat /\ s \in Stores
    BY <1>1, <2>2, <2>4, InvFacts DEF Onward
  <2>6. state \in ClientStates /\ latest <= state.latest
    <3> HIDE DEF latest
    <3> QED BY <1>2 DEF ClientStates
  <2>7. s.pending[ClientStatePath(c)].latest <= state.latest
    <3>1. s.pending[ClientStatePath(c)].latest = latest
      BY <1>2, <2>3
    <3> QED BY <2>6, <3>1
  <2> HIDE DEF s, state
  <2>8. Onward(s, StoreClient(s, c, state, h))
    BY <2>5, <2>6, <2>7, StoreClientExtends
  <2> QED BY <1>2, <2>1, <2>2, <2>8, OnwardOn
<1> QED BY <1>3, <1>4, <1>5

\* Evidence of misbehaviour.
LEMMA MisbehaviourOnward ==
  ASSUME IInv, NEW c \in Clients, Misbehaviour(c)
  PROVE  Onward(ibc, ibc')
<1> DEFINE state == [ClientState(ibc, c) EXCEPT !.frozen = TRUE]
<1>1. ClientState(ibc, c) # None /\ ibc' = StoreClientState(ibc, c, state)
  BY DEF Misbehaviour, Active, Handled
<1>2. ClientState(ibc, c) \in ClientStates
  BY <1>1, ActiveFacts
<1>3. state \in ClientStates /\ state.latest = ClientState(ibc, c).latest
  BY <1>2 DEF ClientStates
<1> HIDE DEF state
<1> QED BY <1>1, <1>3, FreezeOnward

\* Recovery by governance.
LEMMA RecoverOnward ==
  ASSUME IInv, NEW c \in Clients, NEW d \in Clients, RecoverClient(c, d)
  PROVE  Onward(ibc, ibc')
<1> DEFINE state == ClientState(ibc, d)
           h == state.latest
<1>1. /\ HostTimestamp(ibc) # None
      /\ ClientState(ibc, c) # None /\ state # None
      /\ state.latest > ClientState(ibc, c).latest
      /\ ibc' = StoreClient(ibc, c, state, h)
  BY DEF RecoverClient, Active, Handled
<1>2. /\ ibc \in Stores /\ state \in ClientStates /\ h \in Heights /\ h \in Nat
      /\ ClientState(ibc, c) = ibc.pending[ClientStatePath(c)]
      /\ ClientState(ibc, c).latest \in Nat
  BY <1>1, ActiveFacts
<1>3. HostTimestamp(ibc) \in Nat /\ HostHeight(ibc) \in Nat
  BY <1>1, InvFacts
<1>4. ibc.pending[ClientStatePath(c)].latest <= state.latest
  BY <1>1, <1>2
<1> HIDE DEF state
<1> QED BY <1>1, <1>2, <1>3, <1>4, StoreClientExtends

\* conn_open_init and conn_open_try.
LEMMA ConnectionOpenOnward ==
  ASSUME IInv, NEW c \in Clients, NEW k \in Conns, ConnectionOpen(c, k)
  PROVE  Onward(ibc, ibc')
<1> DEFINE end == [client |-> c, open |-> FALSE]
           t == StoreConnection(StoreConnectionToClient(IncreaseConnectionCounter(ibc), c, k), k, end)
           x == ibc.pending
           y == t.pending
<1>1. Get(ibc, NextConnectionSequencePath) = k /\ ibc' = t /\ ibc \in Stores
  BY InvFacts DEF ConnectionOpen, Handled
<1>2. end \in ConnectionEnds
  BY DEF ConnectionEnds
<1> HIDE DEF end
<1>3. /\ t \in Stores /\ t.staged = ibc.staged
      /\ SameClient(x, y)
      /\ \A j \in Conns : y[ConnectionPath(j)] = IF j = k THEN end ELSE x[ConnectionPath(j)]
      /\ \A n \in Chans : y[ChannelEndPath(n)] = x[ChannelEndPath(n)]
  BY <1>1, <1>2, OpenReads
<1>4. x \in State /\ y \in State /\ end # None
  BY <1>1, <1>2, <1>3, NoneAssumption DEF Stores, StoreOf
<1> HIDE DEF t, x, y
<1>5. Extends(x, x)
  BY <1>4, ExtendsItself
<1>6. Extends(x, y)
  BY <1>3, <1>4, <1>5 DEF Extends, SameClient
<1> QED BY <1>1, <1>3, <1>4, <1>6 DEF Onward, x, y

\* conn_open_ack and conn_open_confirm.
LEMMA ConnectionConfirmOnward ==
  ASSUME IInv, NEW k \in Conns, ConnectionConfirm(k)
  PROVE  Onward(ibc, ibc')
<1> DEFINE old == Get(ibc, ConnectionPath(k))
           end == [old EXCEPT !.open = TRUE]
<1>1. old # None /\ ibc' = StoreSet(ibc, ConnectionPath(k), end)
  BY DEF ConnectionConfirm, Handled, StoreConnection
<1>2. ibc \in Stores /\ old \in ConnectionEnds
  BY <1>1, InvFacts, PathFacts, ValueFacts DEF State
<1>3. end \in ValuesAt(ConnectionPath(k)) /\ end # None
  <2> HIDE DEF old
  <2>1. end \in ConnectionEnds
    BY <1>2 DEF ConnectionEnds
  <2> HIDE DEF end
  <2> QED BY <2>1, ValueFacts, NoneAssumption
<1> HIDE DEF end
<1> QED BY <1>1, <1>2, <1>3, PathFacts, Kinds, OtherSetExtends

\* chan_open_init and chan_open_try.
LEMMA ChannelOpenOnward ==
  ASSUME IInv, NEW k \in Conns, ChannelOpen(k)
  PROVE  Onward(ibc, ibc')
<1> DEFINE n == Get(ibc, NextChannelSequencePath)
           end == [conn |-> k, state |-> "init"]
           s == StoreChannel(ibc, n, end)
<1>1. n \in Chans /\ ibc' = IncreaseChannelCounter(s)
  BY DEF ChannelOpen, Handled
<1>2. ibc \in Stores /\ n = ibc.pending[NextChannelSequencePath]
  BY InvFacts, PathFacts
<1>3. end \in ChannelEnds
  BY DEF ChannelEnds
<1>4. end \in ValuesAt(ChannelEndPath(n)) /\ end # None
  BY <1>3, ValueFacts, NoneAssumption
<1> HIDE DEF n, end
<1>5. Onward(ibc, s)
  BY <1>1, <1>2, <1>4, PathFacts, Kinds, OtherSetExtends DEF StoreChannel
<1>6. s.pending[NextChannelSequencePath] = n
  BY <1>1, <1>2, <1>3, PathFacts, Kinds, ChannelReads
<1> HIDE DEF s
<1>7. s \in Stores /\ Get(s, NextChannelSequencePath) = n
  BY <1>5, <1>6, GetLemma, PathFacts DEF Onward
<1>8. n + 1 \in ValuesAt(NextChannelSequencePath) /\ n + 1 # None
  <2>1. n + 1 \in Nat
    BY <1>1, IbcAssumption DEF Chans
  <2> QED BY <2>1, ValueFacts, NoneAssumption
<1>9. Onward(s, StoreSet(s, NextChannelSequencePath, n + 1))
  BY <1>7, <1>8, PathFacts, Kinds, OtherSetExtends
<1> QED BY <1>1, <1>2, <1>5, <1>7, <1>9, OnwardOn DEF IncreaseChannelCounter

\* Confirming and closing a channel.
LEMMA ChannelSetOnward ==
  ASSUME IInv, NEW n \in Chans, NEW state \in {"open", "closed"},
         Get(ibc, ChannelEndPath(n)) # None
  PROVE  Onward(ibc, StoreChannel(ibc, n, [Get(ibc, ChannelEndPath(n)) EXCEPT !.state = state]))
<1> DEFINE old == Get(ibc, ChannelEndPath(n))
           end == [old EXCEPT !.state = state]
<1>1. ibc \in Stores /\ old \in ChannelEnds
  BY InvFacts, PathFacts, ValueFacts DEF State
<1>2. end \in ValuesAt(ChannelEndPath(n)) /\ end # None
  <2> HIDE DEF old
  <2>1. end \in ChannelEnds
    BY <1>1 DEF ChannelEnds
  <2> HIDE DEF end
  <2> QED BY <2>1, ValueFacts, NoneAssumption
<1> HIDE DEF end
<1>3. Onward(ibc, StoreSet(ibc, ChannelEndPath(n), end))
  BY <1>1, <1>2, PathFacts, Kinds, OtherSetExtends
<1> QED BY <1>3 DEF StoreChannel, end

\* Within a block: a message leads onward and the transaction goes on.
Working == Onward(ibc, ibc') /\ pc = "tx" /\ pc' = "tx"

\* Between messages nothing is written, but for what the end of a transaction
\* and of a block do.
Cycling ==
  \/ /\ ibc' = ibc
     /\ \/ pc = "idle" /\ pc' = "block"
        \/ pc = "block" /\ pc' = "tx"
        \/ pc = "tx" /\ pc' \in {"failed", "panicked"}
  \/ pc = "failed" /\ pc' = "block" /\ ibc'.pending = ibc.staged /\ ibc'.staged = ibc.staged
  \/ pc = "tx" /\ pc' = "block" /\ ibc'.pending = ibc.pending /\ ibc'.staged = ibc.pending
  \/ pc = "block" /\ pc' = "idle" /\ ibc'.pending = ibc.pending /\ ibc'.staged = ibc.pending

\* A handler that succeeds and leads onward.
LEMMA HandledWorks == ASSUME NEW t, Handled(t), Onward(ibc, t) PROVE Working
  BY DEF Handled, Working

\* Every step of the chain is one or the other.
LEMMA WorkOrCycle ==
  ASSUME IInv, Next
  PROVE  Working \/ Cycling
<1>0. ibc \in StoreOf(State, {0}) /\ {0} \in SUBSET Nat
  BY InvFacts DEF Stores
<1>1. CASE BeginBlock \/ DeliverTx \/ MsgFails \/ RecoveryPanics
  BY <1>1 DEF BeginBlock, DeliverTx, MsgFails, RecoveryPanics, Cycling
<1>2. CASE ResetAll \/ ApplyAll
  BY <1>0, <1>2, SettleLemma DEF ResetAll, ApplyAll, Cycling
<1>3. CASE Commit
  BY <1>0, <1>3, CommitLemma DEF Commit, Cycling
<1>4. ASSUME NEW h \in Heights, CreateClient(h) PROVE Working
  BY <1>4, CreateOnward DEF CreateClient, Handled, Working
<1>5. ASSUME NEW c \in Clients, NEW h \in Heights, NEW oldest \in Heights,
             UpdateKnown(c, h, oldest)
      PROVE  Working
  BY <1>5, UpdateKnownOnward DEF UpdateKnown, Handled, Working
<1>6. ASSUME NEW c \in Clients, NEW h \in Heights, NEW oldest \in Heights,
             UpdateClient(c, h, oldest)
      PROVE  Working
  <2>1. pc = "tx" /\ pc' = "tx"
    BY <1>6 DEF UpdateClient, Handled, Halts
  <2> QED BY <1>6, <2>1, UpdateOnward DEF Working
<1>7. ASSUME NEW c \in Clients, Misbehaviour(c) PROVE Working
  BY <1>7, MisbehaviourOnward DEF Misbehaviour, Handled, Working
<1>8. ASSUME NEW c \in Clients, NEW d \in Clients, RecoverClient(c, d) PROVE Working
  BY <1>8, RecoverOnward DEF RecoverClient, Handled, Working
<1>9. ASSUME NEW k \in Conns, NEW c \in Clients, ConnectionOpen(c, k) PROVE Working
  BY <1>9, ConnectionOpenOnward DEF ConnectionOpen, Handled, Working
<1>10. ASSUME NEW k \in Conns, ConnectionConfirm(k) PROVE Working
  BY <1>10, ConnectionConfirmOnward DEF ConnectionConfirm, Handled, Working
<1>11. ASSUME NEW k \in Conns, ChannelOpen(k) PROVE Working
  BY <1>11, ChannelOpenOnward DEF ChannelOpen, Handled, Working
<1>12. ASSUME NEW n \in Chans, ChannelConfirm(n) PROVE Working
  BY <1>12, ChannelSetOnward, HandledWorks DEF ChannelConfirm
<1>13. ASSUME NEW n \in Chans, ChannelClose(n) PROVE Working
  BY <1>13, ChannelSetOnward, HandledWorks DEF ChannelClose
<1> QED BY <1>1, <1>2, <1>3, <1>4, <1>5, <1>6, <1>7, <1>8, <1>9, <1>10, <1>11, <1>12, <1>13
        DEF Next

-----------------------------------------------------------------------------
(* The steps of a listing                                                  *)

\* What is read alike in both states is alive alike.
LEMMA AgreeAlive ==
  ASSUME NEW x, NEW y, Agree(x, y), NEW p \in Paths, p[1] \in DOMAIN Under, Alive(x, p)
  PROVE  Alive(y, p)
<1>1. y[p] = x[p]
  BY DEF Agree
<1>2. CASE p[1] = "consensusStates"
  <2>1. PICK c \in Clients, h \in Heights : p = ClientConsensusStatePath(c, h)
    BY <1>2, PathForms
  <2>2. p[2] = c
    BY <2>1 DEF ClientConsensusStatePath
  <2>3. ClientStatePath(c) \in Paths /\ ClientStatePath(c)[1] \in DOMAIN Under
    BY PathFacts DEF ClientStatePath, Under
  <2>4. y[ClientStatePath(p[2])] = x[ClientStatePath(p[2])]
    BY <2>2, <2>3 DEF Agree
  <2> QED BY <1>1, <2>4 DEF Alive
<1> QED BY <1>1, <1>2 DEF Alive

\* The keys of clients, connections and channels are numbered from zero on.
LEMMA ListedNumbered ==
  ASSUME IInv, NEW kind \in DOMAIN Under, kind # "consensusStates", NEW c
  PROVE  Numbered(Listed(ibc, kind, c))
<1> DEFINE x == ibc.pending
           keys == Listed(ibc, kind, c)
<1>1. /\ x \in State /\ \A p \in Paths : Get(ibc, p) = x[p]
      /\ ClientIds(x) /\ ConnIds(x) /\ ChanIds(x)
  BY InvFacts DEF ClientPart, ConnPart
<1>2. \A p : p \in keys <=> p \in Paths /\ p[1] = kind /\ x[p] # None
  BY <1>1 DEF Listed, GetKeys, Under
<1> HIDE DEF x, keys
<1>3. \A q \in {NextClientSequencePath, NextConnectionSequencePath, NextChannelSequencePath} :
        x[q] \in Nat \cup {None}
  BY <1>1, PathFacts, ValueFacts DEF State
<1>4. CASE kind = "clientState"
  <2>1. \A i \in 0 .. MaxClients - 1 :
          x[<<kind, i, 0>>] # None <=> Below(i, x[NextClientSequencePath])
    BY <1>1, <1>4 DEF ClientIds, Clients, ClientStatePath
  <2>2. ASSUME NEW p PROVE p \in Paths /\ p[1] = kind <=> p \in FirstKeys(kind, MaxClients)
    BY <1>4, PathForms, PathFacts DEF FirstKeys, Clients, ClientStatePath
  <2>3. \A p : p \in keys <=> p \in FirstKeys(kind, MaxClients) /\ x[p] # None
    BY <1>2, <2>2
  <2> QED BY <1>3, <2>1, <2>3, IbcAssumption, KeysBelow DEF keys
<1>5. CASE kind = "connections"
  <2>1. \A i \in 0 .. MaxConns - 1 :
          x[<<kind, i, 0>>] # None <=> Below(i, x[NextConnectionSequencePath])
    BY <1>1, <1>5 DEF ConnIds, Conns, ConnectionPath
  <2>2. ASSUME NEW p PROVE p \in Paths /\ p[1] = kind <=> p \in FirstKeys(kind, MaxConns)
    BY <1>5, PathForms, PathFacts DEF FirstKeys, Conns, ConnectionPath
  <2>3. \A p : p \in keys <=> p \in FirstKeys(kind, MaxConns) /\ x[p] # None
    BY <1>2, <2>2
  <2> QED BY <1>3, <2>1, <2>3, IbcAssumption, KeysBelow DEF keys
<1>6. CASE kind = "channelEnds"
  <2>1. \A i \in 0 .. MaxChans - 1 :
          x[<<kind, i, 0>>] # None <=> Below(i, x[NextChannelSequencePath])
    BY <1>1, <1>6 DEF ChanIds, Chans, ChannelEndPath
  <2>2. ASSUME NEW p PROVE p \in Paths /\ p[1] = kind <=> p \in FirstKeys(kind, MaxChans)
    BY <1>6, PathForms, PathFacts DEF FirstKeys, Chans, ChannelEndPath
  <2>3. \A p : p \in keys <=> p \in FirstKeys(kind, MaxChans) /\ x[p] # None
    BY <1>2, <2>2
  <2> QED BY <1>3, <2>1, <2>3, IbcAssumption, KeysBelow DEF keys
<1> QED BY <1>4, <1>5, <1>6 DEF Under

\* The keys of a listing that begins are alive, in the staged state as well
\* unless a transaction is running.
LEMMA StartInv ==
  ASSUME IInv, ListingInv, NEW kind \in DOMAIN Under, NEW c \in Clients,
         StartListing(kind, c)
  PROVE  ListingInv'
<1> DEFINE keys == Listed(ibc, kind, c)
           saw == IF pc \in Unsettled THEN "running" ELSE "applied"
<1>1. /\ ibc.pending \in State
      /\ \A p \in Paths : Get(ibc, p) = ibc.pending[p]
      /\ pc \in {"idle", "block", "tx", "failed", "panicked"}
  BY InvFacts DEF IInv
<1>2. \A p \in keys : p \in Paths /\ p[1] = kind /\ Alive(ibc.pending, p)
  BY <1>1 DEF Listed, GetKeys, Alive
<1>3. kind # "consensusStates" => Numbered(keys)
  BY ListedNumbered
<1>4. /\ listing' = [kind |-> kind, keys |-> keys, left |-> keys, missing |-> FALSE, saw |-> saw]
      /\ ibc' = ibc /\ pc' = pc
  BY DEF StartListing, vars
<1> HIDE DEF keys
<1>5. saw = "applied" => \A p \in keys : Alive(ibc.staged, p)
  <2> SUFFICES ASSUME saw = "applied", NEW p \in keys PROVE Alive(ibc.staged, p)
    OBVIOUS
  <2>1. Agree(ibc.pending, ibc.staged)
    BY <1>1 DEF ListingInv, Unsettled
  <2> QED BY <1>2, <2>1, AgreeAlive
<1>6. /\ saw \in {"applied", "running"} /\ (saw = "running" => pc \in Unsettled)
      /\ keys \in SUBSET Paths
  BY <1>2
<1> HIDE DEF saw
<1>7. /\ listing'.kind = kind /\ listing'.keys = keys /\ listing'.left = keys
      /\ listing'.missing = FALSE /\ listing'.saw = saw
      /\ listing' \in Listings
  BY <1>4, <1>6 DEF Listings
<1>8. (pc \in {"idle", "block"} => Agree(ibc.pending, ibc.staged))'
  BY <1>4 DEF ListingInv
<1> QED BY <1>2, <1>3, <1>4, <1>5, <1>6, <1>7, <1>8 DEF ListingInv

\* An entry that is gone when it is read is a consensus state.
LEMMA ReadInv ==
  ASSUME IInv, ListingInv, ReadEntry
  PROVE  ListingInv'
<1> DEFINE p == FirstPath(listing.left)
<1>1. /\ listing \in Listings /\ listing.left \in SUBSET Paths /\ listing.left # {}
      /\ ibc' = ibc /\ pc' = pc
      /\ listing' = IF Get(ibc, p) = None THEN [listing EXCEPT !.missing = TRUE]
                    ELSE [listing EXCEPT !.left = @ \ {p}]
  BY DEF ListingInv, ReadEntry, vars, Listings
<1>2. p \in listing.left /\ p \in Paths /\ Get(ibc, p) = ibc.pending[p]
  BY <1>1, FirstPathIn, InvFacts
<1> HIDE DEF p
<1>3. /\ listing' \in Listings
      /\ listing'.kind = listing.kind /\ listing'.keys = listing.keys
      /\ listing'.saw = listing.saw /\ listing'.left \subseteq listing.left
      /\ listing'.missing => listing.missing \/ ibc.pending[p] = None
  <2>1. CASE Get(ibc, p) = None
    BY <1>1, <1>2, <2>1 DEF Listings
  <2>2. CASE Get(ibc, p) # None
    BY <1>1, <1>2, <2>2 DEF Listings
  <2> QED BY <2>1, <2>2
<1>4. ASSUME listing.kind # "none", listing.saw # "undone", listing'.missing
      PROVE  listing.kind = "consensusStates"
  <2>1. CASE listing.missing
    BY <1>4, <2>1 DEF ListingInv
  <2>2. CASE ibc.pending[p] = None
    BY <1>2, <1>4, <2>2 DEF ListingInv, Alive
  <2> QED BY <1>3, <1>4, <2>1, <2>2
<1> QED BY <1>1, <1>3, <1>4 DEF ListingInv

\* The end of a listing.
LEMMA EndInv ==
  ASSUME ListingInv, EndListing
  PROVE  ListingInv'
<1>1. listing' = NoListing /\ ibc' = ibc /\ pc' = pc
  BY DEF EndListing, vars
<1>2. NoListing \in Listings /\ NoListing.kind = "none"
  BY DEF NoListing, Listings
<1> QED BY <1>1, <1>2 DEF ListingInv

\* The chain goes on: what was seen of a running transaction is applied or
\* undone with it, and a message leaves what was seen alive.
LEMMA ChainInv ==
  ASSUME IInv, ListingInv, ChainStep
  PROVE  ListingInv'
<1> DEFINE saw == IF listing.saw # "running" \/ pc' # "block" THEN listing.saw
                  ELSE IF pc = "tx" THEN "applied" ELSE "undone"
<1>1. listing \in Listings /\ listing' = [listing EXCEPT !.saw = saw]
  BY DEF ListingInv, ChainStep
<1>2. saw \in {"applied", "running", "undone"}
  BY <1>1 DEF Listings
<1>3. Working \/ Cycling
  BY WorkOrCycle DEF ChainStep
<1>4. ibc.pending \in State /\ ibc.staged \in State
  BY InvFacts
<1>5. listing.kind # "none" => \A p \in listing.keys : p \in Paths /\ p[1] \in DOMAIN Under
  BY <1>1 DEF ListingInv, Listings
<1>6. /\ listing' \in Listings
      /\ listing'.kind = listing.kind /\ listing'.keys = listing.keys
      /\ listing'.left = listing.left /\ listing'.missing = listing.missing
      /\ listing'.saw = saw
  <2> HIDE DEF saw
  <2> QED BY <1>1, <1>2 DEF Listings
<1>7. ASSUME pc' \in {"idle", "block"} PROVE Agree(ibc'.pending, ibc'.staged)
  BY <1>3, <1>7 DEF Working, Cycling, Agree, ListingInv
<1>8. ASSUME listing.kind # "none", saw = "running"
      PROVE  pc' \in Unsettled
  <2>1. listing.saw = "running" /\ pc' # "block" /\ pc \in Unsettled
    BY <1>8 DEF ListingInv
  <2> QED BY <1>3, <2>1 DEF Working, Cycling, Unsettled
<1>9. ASSUME listing.kind # "none", saw # "undone", NEW p \in listing.keys
      PROVE  Alive(ibc'.pending, p)
  <2>1. listing.saw # "undone" /\ Alive(ibc.pending, p)
    BY <1>9 DEF ListingInv
  <2>2. CASE Working
    BY <1>4, <1>5, <1>9, <2>1, <2>2, AliveExtends DEF Working, Onward
  <2>3. CASE Cycling
    <3>1. CASE ibc'.pending = ibc.pending
      BY <2>1, <3>1
    <3>2. CASE pc = "failed" /\ pc' = "block" /\ ibc'.pending = ibc.staged
      <4>1. listing.saw = "applied"
        BY <1>1, <1>9, <2>1, <3>2 DEF Listings
      <4> QED BY <1>9, <3>2, <4>1 DEF ListingInv
    <3> QED BY <2>3, <3>1, <3>2 DEF Cycling
  <2> QED BY <1>3, <2>2, <2>3
<1>10. ASSUME listing.kind # "none", saw = "applied", NEW p \in listing.keys
       PROVE  Alive(ibc'.staged, p)
  <2>1. CASE listing.saw = "applied"
    <3>1. Alive(ibc.pending, p) /\ Alive(ibc.staged, p)
      BY <1>10, <2>1 DEF ListingInv
    <3>2. ibc'.staged \in {ibc.pending, ibc.staged}
      BY <1>3 DEF Working, Onward, Cycling
    <3> QED BY <3>1, <3>2
  <2>2. CASE listing.saw # "applied"
    <3>1. listing.saw = "running" /\ pc = "tx" /\ pc' = "block"
      BY <1>10, <2>2
    <3>2. Alive(ibc.pending, p) /\ ibc'.staged = ibc.pending
      BY <1>3, <1>10, <3>1 DEF ListingInv, Working, Cycling
    <3> QED BY <3>2
  <2> QED BY <2>1, <2>2
<1>11. saw # "undone" => listing.saw # "undone"
  OBVIOUS
<1> HIDE DEF saw
<1> QED BY <1>6, <1>7, <1>8, <1>9, <1>10, <1>11 DEF ListingInv

\* Both invariants hold as long as listings and the chain go on.
LEMMA ListingInvariance == ListingSpec => [](IInv /\ ListingInv)
<1>1. ASSUME ListingInit PROVE IInv /\ ListingInv
  <2>1. IInv /\ listing = NoListing
    BY <1>1, InitInv DEF ListingInit
  <2>2. NoListing \in Listings /\ NoListing.kind = "none"
    BY DEF NoListing, Listings
  <2>3. Agree(ibc.pending, ibc.staged)
    <3>1. Init
      BY <1>1 DEF ListingInit
    <3>2. ASSUME NEW p \in Paths, p[1] \in DOMAIN Under
          PROVE  ibc.pending[p] = ibc.staged[p]
      <4>1. p \notin {NextClientSequencePath, NextConnectionSequencePath,
                      NextChannelSequencePath}
        BY <3>2 DEF Under, NextClientSequencePath, NextConnectionSequencePath,
                    NextChannelSequencePath
      <4> QED BY <3>1, <4>1, InitReads
    <3> QED BY <3>2 DEF Agree
  <2> QED BY <2>1, <2>2, <2>3 DEF ListingInv
<1>2. ASSUME IInv, ListingInv, [ListingNext]_lvars PROVE IInv' /\ ListingInv'
  <2>1. IInv'
    BY <1>2, StepInv
       DEF ListingNext, ChainStep, StartListing, ReadEntry, EndListing, lvars
  <2>2. ASSUME UNCHANGED lvars PROVE ListingInv'
    BY <1>2, <2>2 DEF ListingInv, lvars, vars
  <2>3. ASSUME NEW kind \in DOMAIN Under, NEW c \in Clients, StartListing(kind, c)
        PROVE  ListingInv'
    BY <1>2, <2>3, StartInv
  <2>4. ASSUME ChainStep \/ ReadEntry \/ EndListing PROVE ListingInv'
    BY <1>2, <2>4, ChainInv, ReadInv, EndInv
  <2> QED BY <1>2, <2>1, <2>2, <2>3, <2>4 DEF ListingNext
<1> QED BY <1>1, <1>2, PTL DEF ListingSpec

\* A listing that a relayer makes while the chain goes on, key by key, misses
\* no client, connection or channel, shows none twice, and loses no entry but
\* consensus states that an update has pruned since.
THEOREM ListingsAreWhole == ListingSpec => []ListingsHold
<1>1. ASSUME IInv, ListingInv PROVE ListingsHold
  <2> SUFFICES ASSUME listing.kind # "none", listing.saw = "applied" PROVE
         /\ \A p \in listing.keys :
              Get(ibc, p) = None =>
                listing.kind = "consensusStates" /\ p[3] < ClientState(ibc, p[2]).latest
         /\ listing.missing => listing.kind = "consensusStates"
         /\ listing.kind # "consensusStates" => Numbered(listing.keys)
    BY DEF ListingsHold, Numbered
  <2>1. ASSUME NEW p \in listing.keys, Get(ibc, p) = None
        PROVE  listing.kind = "consensusStates" /\ p[3] < ClientState(ibc, p[2]).latest
    <3>1. p \in Paths /\ p[1] = listing.kind /\ Alive(ibc.pending, p)
      BY <1>1, <2>1 DEF ListingInv, Listings
    <3>2. ibc.pending[p] = None
      BY <1>1, <2>1, <3>1, InvFacts
    <3>3. /\ p[1] = "consensusStates"
          /\ p[3] < ibc.pending[ClientStatePath(p[2])].latest
      BY <3>1, <3>2 DEF Alive
    <3>4. PICK c \in Clients, h \in Heights : p = ClientConsensusStatePath(c, h)
      BY <3>1, <3>3, PathForms
    <3>5. p[2] = c
      BY <3>4 DEF ClientConsensusStatePath
    <3>6. ClientState(ibc, c) = ibc.pending[ClientStatePath(c)]
      BY <1>1, InvFacts, PathFacts DEF ClientState
    <3> QED BY <3>1, <3>3, <3>5, <3>6
  <2> QED BY <1>1, <2>1 DEF ListingInv
<1> QED BY <1>1, ListingInvariance, PTL
=============================================================================
