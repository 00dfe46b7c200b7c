---------------------------- MODULE UpgradeProofs ----------------------------
(***************************************************************************)
(* Proofs about module Upgrade, for any number of proposals, plan heights  *)
(* and blocks: no committed plan lacks its client state, the chain can     *)
(* only halt on a plan for height 0 in its second block, a consensus state *)
(* is stored neither too early nor, undisturbed, too late, and no proposal *)
(* id is used twice.                                                       *)
(***************************************************************************)
EXTENDS Upgrade, SharedLemmas

UpgradeStores == StoreOf(State, {0})
GovStores == StoreOf(GovState, {0})

\* The paths of the upgrade module's store are different from each other.
LEMMA PathFacts ==
  /\ PlanPath \in Paths
  /\ \A h \in PlanHeights : /\ ClientPath(h) \in Paths /\ ConsPath(h) \in Paths
                            /\ ClientPath(h) # PlanPath /\ ConsPath(h) # PlanPath
  /\ \A h \in PlanHeights, g \in PlanHeights :
       /\ ClientPath(h) # ConsPath(g)
       /\ h # g => ClientPath(h) # ClientPath(g) /\ ConsPath(h) # ConsPath(g)
  /\ {0} \in SUBSET Nat
  /\ PlanHeights \subseteq Nat
  /\ None \in Nat \cup {None}
  BY UpgradeAssumption DEF Paths, PlanPath, ClientPath, ConsPath, PlanHeights

\* What set and delete do to the pending state of the upgrade module's store.
LEMMA UpgradeWrite ==
  ASSUME NEW s \in UpgradeStores, NEW p \in Paths, NEW v \in Nat \cup {None}
  PROVE  /\ StoreSet(s, p, v) \in UpgradeStores
         /\ StoreSet(s, p, v).store = s.store
         /\ StoreSet(s, p, v).staged = s.staged
         /\ StoreSet(s, p, v).pending[p] = v
         /\ \A q \in Paths \ {p} : StoreSet(s, p, v).pending[q] = s.pending[q]
<1>1. None \in Nat \cup {None} /\ s \in StoreOf([Paths -> Nat \cup {None}], {0})
  BY DEF UpgradeStores, State
<1>2. /\ StoreSet(s, p, v) \in UpgradeStores
      /\ StoreSet(s, p, v).store = s.store
      /\ StoreSet(s, p, v).staged = s.staged
      /\ StoreSet(s, p, v).pending = [s.pending EXCEPT ![p] = v]
  BY <1>1 DEF StoreSet, StoreOf, UpgradeStores, State
<1>3. s.pending \in [Paths -> Nat \cup {None}]
  BY <1>1 DEF StoreOf
<1> QED BY <1>2, <1>3

\* delete removes one entry of the pending state.
LEMMA UpgradeDelete ==
  ASSUME NEW s \in UpgradeStores, NEW p \in Paths
  PROVE  /\ StoreDelete(s, p) \in UpgradeStores
         /\ StoreDelete(s, p).store = s.store
         /\ StoreDelete(s, p).staged = s.staged
         /\ StoreDelete(s, p).pending[p] = None
         /\ \A q \in Paths : StoreDelete(s, p).pending[q] = s.pending[q]
                            \/ StoreDelete(s, p).pending[q] = None
<1> DEFINE d == StoreDelete(s, p)
<1>1. s \in StoreOf([Paths -> Nat \cup {None}], {0})
  BY DEF UpgradeStores, State
<1>2. /\ d \in UpgradeStores /\ d.store = s.store /\ d.staged = s.staged
      /\ d.pending = [s.pending EXCEPT ![p] = None]
  BY <1>1 DEF StoreDelete, StoreOf, UpgradeStores, State
<1>3. s.pending \in [Paths -> Nat \cup {None}]
  BY <1>1 DEF StoreOf
<1> HIDE DEF d
<1>4. d.pending[p] = None /\ \A q \in Paths \ {p} : d.pending[q] = s.pending[q]
  BY <1>2, <1>3
<1> QED BY <1>2, <1>4 DEF d

\* clear_upgrade_plan removes the plan; it can only remove entries.
LEMMA ClearFacts ==
  ASSUME NEW s \in UpgradeStores, NEW h \in PlanHeights
  PROVE  /\ ClearUpgradePlan(s, h) \in UpgradeStores
         /\ ClearUpgradePlan(s, h).store = s.store
         /\ ClearUpgradePlan(s, h).staged = s.staged
         /\ ClearUpgradePlan(s, h).pending[PlanPath] = None
         /\ \A p \in Paths : ClearUpgradePlan(s, h).pending[p] \in {s.pending[p], None}
<1> DEFINE a == StoreDelete(s, ClientPath(h))
           b == StoreDelete(a, ConsPath(h))
           c == StoreDelete(b, PlanPath)
<1>1. ClientPath(h) \in Paths /\ ConsPath(h) \in Paths /\ PlanPath \in Paths
  BY PathFacts
<1>2. /\ a \in UpgradeStores /\ a.store = s.store /\ a.staged = s.staged
      /\ \A p \in Paths : a.pending[p] = s.pending[p] \/ a.pending[p] = None
  BY <1>1, UpgradeDelete
<1> HIDE DEF a
<1>3. /\ b \in UpgradeStores /\ b.store = s.store /\ b.staged = s.staged
      /\ \A p \in Paths : b.pending[p] = s.pending[p] \/ b.pending[p] = None
  <2>1. /\ b \in UpgradeStores /\ b.store = a.store /\ b.staged = a.staged
        /\ \A p \in Paths : b.pending[p] = a.pending[p] \/ b.pending[p] = None
    BY <1>1, <1>2, UpgradeDelete
  <2> HIDE DEF b
  <2> QED BY <1>2, <2>1
<1> HIDE DEF b
<1>4. /\ c \in UpgradeStores /\ c.store = s.store /\ c.staged = s.staged
      /\ c.pending[PlanPath] = None
      /\ \A p \in Paths : c.pending[p] = s.pending[p] \/ c.pending[p] = None
  <2>1. /\ c \in UpgradeStores /\ c.store = b.store /\ c.staged = b.staged
        /\ c.pending[PlanPath] = None
        /\ \A p \in Paths : c.pending[p] = b.pending[p] \/ c.pending[p] = None
    BY <1>1, <1>3, UpgradeDelete
  <2> HIDE DEF c
  <2> QED BY <1>3, <2>1
<1>5. ClearUpgradePlan(s, h) = c
  BY DEF ClearUpgradePlan, a, b
<1> HIDE DEF c
<1> QED BY <1>4, <1>5

\* An accepted proposal leaves its plan and the client state for it.
LEMMA ExecuteFacts ==
  ASSUME NEW s \in UpgradeStores, NEW h \in PlanHeights
  PROVE  /\ ExecuteProposal(s, h) \in UpgradeStores
         /\ ExecuteProposal(s, h).store = s.store
         /\ ExecuteProposal(s, h).staged = s.staged
         /\ ExecuteProposal(s, h).pending[PlanPath] = h
         /\ ExecuteProposal(s, h).pending[ClientPath(h)] = 1
         /\ \A g \in PlanHeights : ExecuteProposal(s, h).pending[ConsPath(g)]
                                     \in {s.pending[ConsPath(g)], None}
<1> DEFINE a == ClearedFor(s, h)
           b == IF UpgradePlan(a) # None THEN ClearUpgradePlan(a, h) ELSE a
           c == StoreSet(b, PlanPath, h)
           e == StoreSet(c, ClientPath(h), 1)
<1>1. /\ a \in UpgradeStores /\ a.store = s.store /\ a.staged = s.staged
      /\ \A p \in Paths : a.pending[p] \in {s.pending[p], None}
  <2>1. a = s \/ a = ClearUpgradePlan(s, h)
    BY DEF ClearedFor
  <2> HIDE DEF a
  <2> QED BY <2>1, ClearFacts
<1> HIDE DEF a
<1>2. /\ b \in UpgradeStores /\ b.store = s.store /\ b.staged = s.staged
      /\ \A p \in Paths : b.pending[p] \in {s.pending[p], None}
  <2>1. b = a \/ b = ClearUpgradePlan(a, h)
    OBVIOUS
  <2> HIDE DEF b
  <2> QED BY <1>1, <2>1, ClearFacts
<1>3. h \in Nat \cup {None} /\ 1 \in Nat \cup {None}
  BY PathFacts
<1> HIDE DEF b
<1>4. /\ c \in UpgradeStores /\ c.store = s.store /\ c.staged = s.staged
      /\ c.pending[PlanPath] = h
      /\ \A p \in Paths \ {PlanPath} : c.pending[p] \in {s.pending[p], None}
  <2>1. PlanPath \in Paths
    BY PathFacts
  <2>2. /\ c \in UpgradeStores /\ c.store = b.store /\ c.staged = b.staged
        /\ c.pending[PlanPath] = h
        /\ \A p \in Paths \ {PlanPath} : c.pending[p] = b.pending[p]
    BY <1>2, <1>3, <2>1, UpgradeWrite
  <2> HIDE DEF c
  <2> QED BY <1>2, <2>2
<1> HIDE DEF c
<1>5. /\ e \in UpgradeStores /\ e.store = s.store /\ e.staged = s.staged
      /\ e.pending[ClientPath(h)] = 1
      /\ \A p \in Paths \ {ClientPath(h)} : e.pending[p] = c.pending[p]
  BY <1>3, <1>4, PathFacts, UpgradeWrite
<1>6. ExecuteProposal(s, h) = e
  BY DEF ExecuteProposal, StoreUpgradedClientState, ScheduleUpgrade, a, b, c
<1> HIDE DEF e
<1> QED BY <1>4, <1>5, <1>6, PathFacts

\* begin_block stores at most the consensus state of the plan, and only in
\* the last block before it.
LEMMA BeginFacts ==
  ASSUME NEW s \in UpgradeStores, PlanBacked(s.pending)
  PROVE  /\ BeginUpgrade(s) \in UpgradeStores
         /\ BeginUpgrade(s).store = s.store
         /\ BeginUpgrade(s).staged = s.staged
         /\ PlanBacked(BeginUpgrade(s).pending)
         /\ \A g \in PlanHeights :
              \/ BeginUpgrade(s).pending[ConsPath(g)] = s.pending[ConsPath(g)]
              \/ CurrentHeight(s) + 1 = g - 1
         /\ BeginPanics(s) <=> s.pending[PlanPath] = 0
         /\ BeginPanics(s) => UpgradePlan(s) = 0
         /\ BeginUpgrade(s).pending[PlanPath] = s.pending[PlanPath]
<1>1. GetState(s, Pending) = s.pending
  BY DEF GetState, Pending
<1>2. \A p \in Paths : StoreGet(s, Pending, p) \in {s.pending[p], None}
  BY <1>1 DEF StoreGet
<1>3. UpgradePlan(s) # None => /\ UpgradePlan(s) = s.pending[PlanPath]
                               /\ \A p \in Paths : StoreGet(s, Pending, p) = s.pending[p]
                               /\ UpgradePlan(s) \in PlanHeights
                               /\ s.pending[ClientPath(UpgradePlan(s))] # None
  BY <1>1, <1>2, PathFacts DEF UpgradePlan, StoreGet, PlanBacked
<1>4. /\ BeginPanics(s) <=> s.pending[PlanPath] = 0
      /\ BeginPanics(s) => UpgradePlan(s) = 0
  <2>1. s.pending[PlanPath] # None => UpgradePlan(s) = s.pending[PlanPath]
    <3>1. s.pending # None
      BY StateAssumption DEF UpgradeStores, StoreOf
    <3> QED BY <1>1, <3>1 DEF UpgradePlan, StoreGet
  <2>2. 0 # None
    BY UpgradeAssumption
  <2> QED BY <1>3, <2>1, <2>2, PathFacts DEF BeginPanics
<1>5. CASE UpgradePlan(s) # None /\ HostHeight(s) = UpgradePlan(s) - 1
  <2> DEFINE h == UpgradePlan(s)
             q == StoreSet(s, ConsPath(h), 1)
  <2>1. h \in PlanHeights /\ h = s.pending[PlanPath] /\ 1 \in Nat \cup {None}
        /\ CurrentHeight(s) + 1 = h - 1 /\ s.pending[ClientPath(h)] # None
    BY <1>3, <1>5 DEF HostHeight
  <2>2. BeginUpgrade(s) = q
    BY <1>5 DEF BeginUpgrade, StoreUpgradedConsensusState
  <2> HIDE DEF h
  <2>3. /\ q \in UpgradeStores /\ q.store = s.store /\ q.staged = s.staged
        /\ \A p \in Paths \ {ConsPath(h)} : q.pending[p] = s.pending[p]
    <3>1. ConsPath(h) \in Paths
      BY <2>1, PathFacts
    <3> QED BY <2>1, <3>1, UpgradeWrite
  <2> HIDE DEF q
  <2>4. q.pending[PlanPath] = h /\ q.pending[ClientPath(h)] # None
    BY <2>1, <2>3, PathFacts
  <2>5. \A g \in PlanHeights : g # h => q.pending[ConsPath(g)] = s.pending[ConsPath(g)]
    BY <2>1, <2>3, PathFacts
  <2> QED BY <1>4, <2>1, <2>2, <2>3, <2>4, <2>5 DEF PlanBacked
<1>6. CASE ~(UpgradePlan(s) # None /\ HostHeight(s) = UpgradePlan(s) - 1)
  BY <1>4, <1>6 DEF BeginUpgrade, StoreUpgradedConsensusState
<1> QED BY <1>5, <1>6

-----------------------------------------------------------------------------
(* The inductive invariant.  What holds of the committed versions holds of *)
(* the pending and the staged state too, since both may be committed next. *)

\* No consensus state of the state st is early for the height n.
Timely(st, n) == \A h \in PlanHeights : st[ConsPath(h)] # None => n >= h - 1

StateInv ==
  /\ PlanBacked(upgrade.pending) /\ PlanBacked(upgrade.staged)
  /\ Timely(upgrade.pending, CurrentHeight(upgrade) + 1)
  /\ Timely(upgrade.staged, CurrentHeight(upgrade) + 1)

IInv == TypeOK /\ StateInv /\ CommittedPlansBacked /\ NeverEarly

\* The facts about a step that leaves the committed versions alone.
LEMMA KeepsVersions ==
  ASSUME IInv, upgrade'.store = upgrade.store
  PROVE  /\ CurrentHeight(upgrade') = CurrentHeight(upgrade)
         /\ CommittedPlansBacked'
         /\ NeverEarly'
  BY DEF IInv, CurrentHeight, CommittedPlansBacked, NeverEarly, PlanBacked

\* The chain starts without a plan.
LEMMA InitInv == Init => IInv
<1> SUFFICES ASSUME Init PROVE IInv
  OBVIOUS
<1>1. /\ upgrade = [store |-> [vec |-> <<>>, pruned |-> 0],
                    staged |-> [p \in Paths |-> None],
                    pending |-> [p \in Paths |-> None]]
      /\ gov = [store |-> [vec |-> <<>>, pruned |-> 0],
                staged |-> [p \in {ProposalPath} |-> None],
                pending |-> [p \in {ProposalPath} |-> None]]
  BY DEF Init, NewStore, EmptyVec
<1>2. [p \in Paths |-> None] \in State /\ [p \in {ProposalPath} |-> None] \in GovState
  BY DEF State, GovState
<1>3. <<>> \in Seq(State) /\ <<>> \in Seq(GovState)
  OBVIOUS
<1>4. upgrade \in StoreOf(State, {0}) /\ gov \in StoreOf(GovState, {0})
  BY <1>1, <1>2, <1>3 DEF StoreOf, VecOf
<1>5. TypeOK
  BY <1>4 DEF Init, TypeOK
<1>6. StateInv
  BY <1>1, PathFacts DEF StateInv, PlanBacked, Timely
<1>7. Len(upgrade.store.vec) = 0
  BY <1>1
<1> QED BY <1>5, <1>6, <1>7 DEF IInv, CommittedPlansBacked, NeverEarly

\* set, apply, reset and commit keep the type of the governance store.
LEMMA GovTyped ==
  ASSUME gov \in GovStores, NEW n \in Nat
  PROVE  /\ StoreSet(gov, ProposalPath, n) \in GovStores
         /\ StoreApply(gov) \in GovStores
         /\ StoreReset(gov) \in GovStores
         /\ StoreCommit(gov) \in GovStores
<1>1. StoreSet(gov, ProposalPath, n) \in GovStores
  BY DEF GovStores, StoreOf, StoreSet, GovState
<1>2. {0} \in SUBSET Nat
  OBVIOUS
<1> QED BY <1>1, <1>2, SettleLemma, CommitLemma DEF GovStores

\* Every step of the block cycle keeps the invariant.
LEMMA StepInv == IInv /\ [Next]_vars => IInv'
<1> SUFFICES ASSUME IInv, [Next]_vars PROVE IInv'
  OBVIOUS
<1>1. /\ upgrade \in UpgradeStores /\ gov \in GovStores /\ counter \in Nat
      /\ TypeOK /\ StateInv
      /\ {0} \in SUBSET Nat
  BY DEF IInv, TypeOK, UpgradeStores, GovStores
<1>2. CurrentHeight(upgrade) \in Nat
  BY <1>1, CommitLemma DEF UpgradeStores
<1>3. ASSUME upgrade' = upgrade, TypeOK' PROVE IInv'
  <2>1. upgrade'.store = upgrade.store /\ upgrade'.pending = upgrade.pending
        /\ upgrade'.staged = upgrade.staged
    BY <1>3
  <2> QED BY <1>1, <1>3, <2>1, KeepsVersions DEF IInv, StateInv
<1>4. CASE BeginBlock
  <2>1. PlanBacked(upgrade.pending) /\ PlanBacked(upgrade.staged)
    BY <1>1 DEF StateInv
  <2>2. /\ BeginUpgrade(upgrade) \in UpgradeStores
        /\ BeginUpgrade(upgrade).store = upgrade.store
        /\ BeginUpgrade(upgrade).staged = upgrade.staged
        /\ PlanBacked(BeginUpgrade(upgrade).pending)
        /\ \A g \in PlanHeights :
             \/ BeginUpgrade(upgrade).pending[ConsPath(g)] = upgrade.pending[ConsPath(g)]
             \/ CurrentHeight(upgrade) + 1 = g - 1
    BY <1>1, <2>1, BeginFacts
  <2>3. upgrade' = upgrade \/ upgrade' = BeginUpgrade(upgrade)
    BY <1>4 DEF BeginBlock
  <2>4. UpgradePlan(upgrade) \in Nat \cup {None}
    BY <1>1, PathFacts
       DEF UpgradePlan, StoreGet, GetState, Pending, UpgradeStores, StoreOf, State
  <2>5. TypeOK'
    <3>1. halted' \in BOOLEAN /\ armed' = UpgradePlan(upgrade)
      BY <1>4 DEF BeginBlock, BeginPanics
    <3> QED BY <1>1, <1>4, <2>2, <2>3, <2>4, <3>1 DEF BeginBlock, TypeOK, UpgradeStores
  <2>6. Timely(upgrade.pending, CurrentHeight(upgrade) + 1)
    BY <1>1 DEF StateInv
  <2>7. Timely(upgrade'.pending, CurrentHeight(upgrade) + 1)
    BY <1>2, <2>2, <2>3, <2>6, PathFacts DEF Timely
  <2>8. Timely(upgrade.staged, CurrentHeight(upgrade) + 1)
    BY <1>1 DEF StateInv
  <2>9. StateInv' /\ CommittedPlansBacked' /\ NeverEarly'
    BY <2>1, <2>2, <2>3, <2>7, <2>8, KeepsVersions DEF StateInv
  <2> QED BY <2>3, <2>5, <2>9 DEF IInv
<1>5. CASE DeliverTx \/ OtherFails \/ ProposalPanics
  BY <1>1, <1>3, <1>5 DEF DeliverTx, OtherFails, ProposalPanics, TypeOK
<1>6. ASSUME NEW h \in PlanHeights, Propose(h) PROVE IInv'
  <2>1. upgrade' = ExecuteProposal(upgrade, h) /\ halted' = halted
    BY <1>6 DEF Propose
  <2>2. /\ upgrade' \in UpgradeStores
        /\ upgrade'.store = upgrade.store
        /\ upgrade'.staged = upgrade.staged
        /\ upgrade'.pending[PlanPath] = h
        /\ upgrade'.pending[ClientPath(h)] = 1
        /\ \A g \in PlanHeights :
             upgrade'.pending[ConsPath(g)] \in {upgrade.pending[ConsPath(g)], None}
    BY <1>1, <2>1, ExecuteFacts
  <2>3. PlanBacked(upgrade'.pending)
    <3>1. 1 # None
      BY UpgradeAssumption
    <3> QED BY <2>2, <3>1 DEF PlanBacked
  <2>4. Timely(upgrade'.pending, CurrentHeight(upgrade) + 1)
    BY <1>1, <2>2 DEF Timely, StateInv
  <2>5. TypeOK'
    BY <1>1, <1>6, <2>2, GovTyped DEF Propose, TypeOK, UpgradeStores, GovStores
  <2> QED BY <1>1, <2>1, <2>2, <2>3, <2>4, <2>5, KeepsVersions DEF IInv, StateInv
<1>7. ASSUME NEW h \in PlanHeights, ProposePast(h) PROVE IInv'
  <2>1. upgrade' = upgrade \/ upgrade' = ClearUpgradePlan(upgrade, h)
    BY <1>7 DEF ProposePast, ClearedFor
  <2>2. halted' = halted
    BY <1>7 DEF ProposePast
  <2>3. CASE upgrade' = upgrade
    <3>1. TypeOK'
      BY <1>1, <1>7, <2>3 DEF ProposePast, TypeOK
    <3> QED BY <1>3, <2>2, <2>3, <3>1
  <2>4. CASE upgrade' = ClearUpgradePlan(upgrade, h)
    <3>1. /\ upgrade' \in UpgradeStores
          /\ upgrade'.store = upgrade.store
          /\ upgrade'.staged = upgrade.staged
          /\ upgrade'.pending[PlanPath] = None
          /\ \A p \in Paths : upgrade'.pending[p] \in {upgrade.pending[p], None}
      BY <1>1, <2>4, ClearFacts
    <3>2. PlanBacked(upgrade'.pending) /\ Timely(upgrade'.pending, CurrentHeight(upgrade) + 1)
      BY <1>1, <3>1, PathFacts DEF PlanBacked, Timely, StateInv
    <3>3. TypeOK'
      BY <1>1, <1>7, <3>1 DEF ProposePast, TypeOK, UpgradeStores
    <3> QED BY <1>1, <2>2, <3>1, <3>2, <3>3, KeepsVersions DEF IInv, StateInv
  <2> QED BY <2>1, <2>3, <2>4
<1>8. CASE ResetAll
  <2>1. /\ upgrade' \in UpgradeStores /\ upgrade'.store = upgrade.store
        /\ upgrade'.staged = upgrade.staged /\ upgrade'.pending = upgrade.staged
    BY <1>1, <1>8, SettleLemma DEF ResetAll, UpgradeStores
  <2>2. TypeOK'
    BY <1>1, <1>8, <2>1, GovTyped DEF ResetAll, TypeOK, UpgradeStores, GovStores
  <2>3. halted' = halted
    BY <1>8 DEF ResetAll
  <2> QED BY <1>1, <2>1, <2>2, <2>3, KeepsVersions DEF IInv, StateInv
<1>9. CASE ApplyAll
  <2>1. /\ upgrade' \in UpgradeStores /\ upgrade'.store = upgrade.store
        /\ upgrade'.staged = upgrade.pending /\ upgrade'.pending = upgrade.pending
    BY <1>1, <1>9, SettleLemma DEF ApplyAll, UpgradeStores
  <2>2. TypeOK'
    BY <1>1, <1>9, <2>1, GovTyped DEF ApplyAll, TypeOK, UpgradeStores, GovStores
  <2>3. halted' = halted
    BY <1>9 DEF ApplyAll
  <2> QED BY <1>1, <2>1, <2>2, <2>3, KeepsVersions DEF IInv, StateInv
<1>10. CASE Commit
  <2> DEFINE V == upgrade.store.vec
             W == upgrade'.store.vec
             x == upgrade.pending
  <2>1. /\ upgrade' \in UpgradeStores
        /\ CurrentHeight(upgrade') = CurrentHeight(upgrade) + 1
        /\ upgrade'.staged = x /\ upgrade'.pending = x
        /\ upgrade'.store = VecPush(upgrade.store, x)
    BY <1>1, <1>10, CommitLemma DEF Commit, UpgradeStores
  <2>2. /\ V \in Seq(State) /\ x \in State /\ Len(V) \in Nat
        /\ CurrentHeight(upgrade) = Len(V) /\ W = Append(V, x)
    BY <1>1, <2>1
       DEF UpgradeStores, StoreOf, VecOf, VecPush, CurrentHeight, OriginalLength
  <2>3. TypeOK'
    BY <1>1, <1>10, <2>1, GovTyped DEF Commit, TypeOK, UpgradeStores, GovStores
  <2>4. /\ PlanBacked(x) /\ Timely(x, Len(V) + 1)
        /\ \A i \in 1 .. Len(V) : PlanBacked(V[i]) /\ Timely(V[i], i)
    BY <1>1, <2>2 DEF StateInv, IInv, CommittedPlansBacked, NeverEarly, Timely
  <2> HIDE DEF V, W, x
  <2>5. \A i \in 1 .. Len(W) : PlanBacked(W[i]) /\ Timely(W[i], i)
    <3>1. /\ Len(W) = Len(V) + 1 /\ W[Len(V) + 1] = x
          /\ \A i \in 1 .. Len(V) : W[i] = V[i]
      BY <2>2
    <3>2. \A i \in 1 .. Len(W) : i \in 1 .. Len(V) \/ i = Len(V) + 1
      BY <2>2, <3>1
    <3> QED BY <2>4, <3>1, <3>2
  <2>6. CommittedPlansBacked' /\ NeverEarly'
    BY <2>5 DEF CommittedPlansBacked, NeverEarly, Timely, PlanBacked, W
  <2>7. Timely(x, Len(V) + 2)
    <3>1. \A h \in PlanHeights : h \in Nat
      BY PathFacts
    <3> QED BY <2>2, <2>4, <3>1 DEF Timely
  <2>8. (Len(V) + 1) + 1 = Len(V) + 2
    BY <2>2
  <2>9. StateInv'
    BY <2>1, <2>2, <2>4, <2>7, <2>8 DEF StateInv
  <2>10. halted' = halted
    BY <1>10 DEF Commit
  <2> QED BY <1>1, <2>3, <2>6, <2>9, <2>10 DEF IInv
<1>11. CASE UNCHANGED vars
  BY <1>1, <1>3, <1>11 DEF vars, TypeOK
<1> QED BY <1>4, <1>5, <1>6, <1>7, <1>8, <1>9, <1>10, <1>11 DEF Next

\* The stores, the counter and the flags keep their types.
THEOREM TypeCorrect == Spec => []TypeOK
<1>1. IInv => TypeOK
  BY DEF IInv
<1> QED BY <1>1, InitInv, StepInv, PTL DEF Spec

\* What leads to a halt: a plan for height 0 is of the first block, and the
\* begin_block that finds it next is that of the second.
ZeroAt(st) ==
  st[PlanPath] = 0 =>
    \/ CurrentHeight(upgrade) = 0
    \/ CurrentHeight(upgrade) = 1 /\ (pc = "idle" \/ halted)

ZeroInv ==
  /\ halted => armed = 0 /\ CurrentHeight(upgrade) = 1 /\ pc = "block"
  /\ pc = "idle" =>
       /\ upgrade.pending[PlanPath] = upgrade.staged[PlanPath]
       /\ CurrentHeight(upgrade) = 0 => upgrade.pending[PlanPath] = None
  /\ ZeroAt(upgrade.pending)
  /\ ZeroAt(upgrade.staged)

\* Every step keeps it.
LEMMA ZeroStep == IInv /\ ZeroInv /\ [Next]_vars => ZeroInv'
<1> SUFFICES ASSUME IInv, ZeroInv, [Next]_vars PROVE ZeroInv'
  OBVIOUS
<1>1. /\ upgrade \in UpgradeStores /\ PlanBacked(upgrade.pending)
      /\ CurrentHeight(upgrade) \in Nat /\ 0 # None /\ {0} \in SUBSET Nat
  BY UpgradeAssumption, CommitLemma DEF IInv, TypeOK, StateInv, UpgradeStores
<1>2. CASE BeginBlock
  <2>1. /\ BeginUpgrade(upgrade).store = upgrade.store
        /\ BeginUpgrade(upgrade).staged = upgrade.staged
        /\ BeginPanics(upgrade) <=> upgrade.pending[PlanPath] = 0
        /\ BeginPanics(upgrade) => UpgradePlan(upgrade) = 0
        /\ BeginUpgrade(upgrade).pending[PlanPath] = upgrade.pending[PlanPath]
    BY <1>1, BeginFacts
  <2>2. /\ upgrade'.store = upgrade.store /\ upgrade'.staged = upgrade.staged
        /\ upgrade'.pending[PlanPath] = upgrade.pending[PlanPath]
        /\ halted' = (upgrade.pending[PlanPath] = 0)
        /\ armed' = UpgradePlan(upgrade) /\ pc = "idle" /\ pc' = "block" /\ ~halted
    <3>1. BeginPanics(upgrade) \in BOOLEAN
      BY DEF BeginPanics
    <3>2. BeginPanics(upgrade) = (upgrade.pending[PlanPath] = 0)
      BY <2>1, <3>1
    <3>3. /\ halted' = BeginPanics(upgrade)
          /\ armed' = UpgradePlan(upgrade) /\ pc = "idle" /\ pc' = "block" /\ ~halted
          /\ upgrade' = upgrade \/ upgrade' = BeginUpgrade(upgrade)
      BY <1>2 DEF BeginBlock
    <3>4. /\ upgrade'.store = upgrade.store /\ upgrade'.staged = upgrade.staged
          /\ upgrade'.pending[PlanPath] = upgrade.pending[PlanPath]
      BY <2>1, <3>3
    <3> QED BY <3>2, <3>3, <3>4
  <2>3. CurrentHeight(upgrade') = CurrentHeight(upgrade)
    BY <2>2 DEF CurrentHeight
  <2>4. upgrade.pending[PlanPath] = 0 =>
          CurrentHeight(upgrade) = 1 /\ UpgradePlan(upgrade) = 0
    BY <1>1, <2>1, <2>2 DEF ZeroInv, ZeroAt
  <2> QED BY <1>1, <2>2, <2>3, <2>4 DEF ZeroInv, ZeroAt
<1>3. CASE DeliverTx \/ OtherFails \/ ProposalPanics
  BY <1>3 DEF DeliverTx, OtherFails, ProposalPanics, ZeroInv, ZeroAt
<1>4. ASSUME NEW h \in PlanHeights, Propose(h) PROVE ZeroInv'
  <2>1. /\ upgrade'.store = upgrade.store /\ upgrade'.staged = upgrade.staged
        /\ upgrade'.pending[PlanPath] = h
    BY <1>1, <1>4, ExecuteFacts DEF Propose
  <2>2. CurrentHeight(upgrade') = CurrentHeight(upgrade)
    BY <2>1 DEF CurrentHeight
  <2>3. h = 0 => CurrentHeight(upgrade) = 0
    BY <1>1, <1>4 DEF Propose, ScheduleAllowed
  <2>4. /\ pc = "tx" /\ pc' = pc /\ halted' = halted /\ armed' = armed
    BY <1>4 DEF Propose
  <2> QED BY <2>1, <2>2, <2>3, <2>4 DEF ZeroInv, ZeroAt
<1>5. ASSUME NEW h \in PlanHeights, ProposePast(h) PROVE ZeroInv'
  <2>1. upgrade' = upgrade \/ upgrade' = ClearUpgradePlan(upgrade, h)
    BY <1>5 DEF ProposePast, ClearedFor
  <2>2. /\ upgrade'.store = upgrade.store /\ upgrade'.staged = upgrade.staged
        /\ upgrade'.pending[PlanPath] \in {upgrade.pending[PlanPath], None}
    BY <1>1, <2>1, ClearFacts
  <2>3. CurrentHeight(upgrade') = CurrentHeight(upgrade)
    BY <2>2 DEF CurrentHeight
  <2>4. pc = "tx" /\ pc' = "failed" /\ halted' = halted /\ armed' = armed
    BY <1>5 DEF ProposePast
  <2> QED BY <1>1, <2>2, <2>3, <2>4 DEF ZeroInv, ZeroAt
<1>6. CASE ResetAll \/ ApplyAll
  <2>1. /\ upgrade'.store = upgrade.store
        /\ upgrade'.pending \in {upgrade.pending, upgrade.staged}
        /\ upgrade'.staged \in {upgrade.pending, upgrade.staged}
    BY <1>1, <1>6, SettleLemma DEF ResetAll, ApplyAll, UpgradeStores
  <2>2. CurrentHeight(upgrade') = CurrentHeight(upgrade)
    BY <2>1 DEF CurrentHeight
  <2>3. pc \in {"tx", "failed"} /\ pc' = "block" /\ halted' = halted /\ armed' = armed
    BY <1>6 DEF ResetAll, ApplyAll
  <2> QED BY <2>1, <2>2, <2>3 DEF ZeroInv, ZeroAt
<1>7. CASE Commit
  <2>1. /\ CurrentHeight(upgrade') = CurrentHeight(upgrade) + 1
        /\ upgrade'.staged = upgrade.pending /\ upgrade'.pending = upgrade.pending
    BY <1>1, <1>7, CommitLemma DEF Commit, UpgradeStores
  <2>2. pc = "block" /\ pc' = "idle" /\ ~halted /\ halted' = halted
    BY <1>7 DEF Commit
  <2> QED BY <1>1, <2>1, <2>2 DEF ZeroInv, ZeroAt
<1>8. CASE UNCHANGED vars
  BY <1>8 DEF vars, ZeroInv, ZeroAt
<1> QED BY <1>2, <1>3, <1>4, <1>5, <1>6, <1>7, <1>8 DEF Next

\* begin_block never panics on a plan without its upgraded client state, and
\* on one for height 0 only in the second block.
THEOREM ChainHaltsOnlyAtZero == Spec => []HaltsOnlyAtZero
<1>1. Init => ZeroInv
  <2> SUFFICES ASSUME Init PROVE ZeroInv
    OBVIOUS
  <2>1. /\ upgrade.pending[PlanPath] = None /\ upgrade.staged[PlanPath] = None
        /\ halted = FALSE
    BY PathFacts DEF Init, NewStore
  <2>2. None # 0
    BY UpgradeAssumption
  <2> QED BY <2>1, <2>2 DEF ZeroInv, ZeroAt
<1>2. ZeroInv => HaltsOnlyAtZero
  BY DEF ZeroInv, HaltsOnlyAtZero
<1> QED BY <1>1, <1>2, InitInv, StepInv, ZeroStep, PTL DEF Spec

\* Every committed plan comes with its upgraded client state.
THEOREM PlansAreBacked == Spec => []CommittedPlansBacked
<1>1. IInv => CommittedPlansBacked
  BY DEF IInv
<1> QED BY <1>1, InitInv, StepInv, PTL DEF Spec

\* No consensus state is committed before the last block ahead of its plan.
THEOREM ConsensusNeverEarly == Spec => []NeverEarly
<1>1. IInv => NeverEarly
  BY DEF IInv
<1> QED BY <1>1, InitInv, StepInv, PTL DEF Spec

-----------------------------------------------------------------------------
\* The id in the governance store is below the counter in every version, so
\* the next proposal gets an id that no version has.
THEOREM IdsNeverReused == Spec => []IdsFresh
<1> DEFINE Below(st, n) == st[ProposalPath] # None => st[ProposalPath] < n
<1>1. Init => IdsFresh
  <2> SUFFICES ASSUME Init PROVE IdsFresh
    OBVIOUS
  <2>1. /\ gov.pending[ProposalPath] = None /\ gov.staged[ProposalPath] = None
        /\ Len(gov.store.vec) = 0
    BY DEF Init, NewStore, EmptyVec
  <2> QED BY <2>1 DEF IdsFresh
<1>2. TypeOK /\ IdsFresh /\ [Next]_vars => IdsFresh'
  <2> SUFFICES ASSUME TypeOK, IdsFresh, [Next]_vars PROVE IdsFresh'
    OBVIOUS
  <2>1. /\ gov \in StoreOf(GovState, {0}) /\ counter \in Nat
        /\ gov.pending[ProposalPath] \in Nat \cup {None}
        /\ gov.staged[ProposalPath] \in Nat \cup {None}
        /\ gov.store.vec \in Seq(GovState) /\ gov.pending \in GovState
        /\ \A i \in 1 .. Len(gov.store.vec) :
             gov.store.vec[i][ProposalPath] \in Nat \cup {None}
    BY DEF TypeOK, StoreOf, VecOf, GovState
  <2>2. CASE UNCHANGED <<gov, counter>>
    BY <2>2 DEF IdsFresh
  <2>3. ASSUME NEW h \in PlanHeights, Propose(h) PROVE IdsFresh'
    <3>1. /\ gov'.store = gov.store /\ gov'.staged = gov.staged
          /\ gov'.pending[ProposalPath] = counter /\ counter' = counter + 1
      BY <2>1, <2>3 DEF Propose, StoreSet, StoreOf, GovState
    <3>2. gov'.staged[ProposalPath] # None => gov'.staged[ProposalPath] < counter'
      BY <2>1, <3>1 DEF IdsFresh
    <3>3. gov'.pending[ProposalPath] < counter'
      BY <2>1, <3>1
    <3>4. \A i \in 1 .. Len(gov.store.vec) :
            gov.store.vec[i][ProposalPath] # None =>
              gov.store.vec[i][ProposalPath] < counter'
      BY <2>1, <3>1 DEF IdsFresh
    <3> QED BY <3>1, <3>2, <3>3, <3>4 DEF IdsFresh
  <2>4. CASE ResetAll \/ ApplyAll
    <3>1. /\ gov'.store = gov.store /\ counter' = counter
          /\ gov'.pending \in {gov.pending, gov.staged}
          /\ gov'.staged \in {gov.pending, gov.staged}
      BY <2>1, <2>4, SettleLemma DEF ResetAll, ApplyAll
    <3> QED BY <3>1 DEF IdsFresh
  <2>5. CASE Commit
    <3>1. {0} \in SUBSET Nat
      OBVIOUS
    <3>2. /\ gov'.pending = gov.pending /\ gov'.staged = gov.pending
          /\ gov'.store = VecPush(gov.store, gov.pending) /\ counter' = counter
      BY <2>1, <2>5, <3>1, CommitLemma DEF Commit
    <3>3. gov'.store.vec = Append(gov.store.vec, gov.pending)
      BY <2>1, <3>2 DEF VecPush, StoreOf, VecOf
    <3> DEFINE V == gov.store.vec
               W == gov'.store.vec
               x == gov.pending
    <3>4. /\ V \in Seq(GovState) /\ x \in GovState /\ W = Append(V, x)
          /\ \A i \in 1 .. Len(V) : Below(V[i], counter)
          /\ Below(x, counter)
      BY <2>1, <3>3 DEF IdsFresh
    <3> HIDE DEF V, W, x, Below
    <3>5. \A i \in 1 .. Len(W) : Below(W[i], counter)
      <4>1. /\ Len(V) \in Nat /\ Len(W) = Len(V) + 1 /\ W[Len(V) + 1] = x
            /\ \A i \in 1 .. Len(V) : W[i] = V[i]
        BY <3>4
      <4>2. \A i \in 1 .. Len(W) : i \in 1 .. Len(V) \/ i = Len(V) + 1
        BY <4>1
      <4> QED BY <3>4, <4>1, <4>2
    <3> QED BY <3>2, <3>4, <3>5 DEF IdsFresh, Below, W, x
  <2> QED BY <2>2, <2>3, <2>4, <2>5
          DEF Next, BeginBlock, DeliverTx, ProposePast, OtherFails, ProposalPanics, vars
<1> QED BY <1>1, <1>2, TypeCorrect, PTL DEF Spec

-----------------------------------------------------------------------------
\* begin_block of the last block before the plan leaves its consensus state.
LEMMA BeginReadies ==
  ASSUME NEW s \in UpgradeStores, PlanBacked(s.pending),
         s.pending[PlanPath] # None,
         CurrentHeight(s) + 1 = s.pending[PlanPath] - 1
  PROVE  BeginUpgrade(s).pending[ConsPath(s.pending[PlanPath])] # None
<1> DEFINE h == s.pending[PlanPath]
           q == StoreSet(s, ConsPath(h), 1)
<1>1. UpgradePlan(s) = h
  <2>1. s.pending # None
    BY StateAssumption DEF UpgradeStores, StoreOf
  <2> QED BY <2>1 DEF UpgradePlan, StoreGet, GetState, Pending
<1>2. BeginUpgrade(s) = q
  BY <1>1 DEF BeginUpgrade, HostHeight, StoreUpgradedConsensusState
<1>3. h \in PlanHeights /\ 1 \in Nat \cup {None} /\ 1 # None
  BY UpgradeAssumption DEF PlanBacked
<1> HIDE DEF h
<1>4. ConsPath(h) \in Paths
  BY <1>3, PathFacts
<1>5. q.pending[ConsPath(h)] = 1
  BY <1>3, <1>4, UpgradeWrite
<1> QED BY <1>2, <1>3, <1>5 DEF h

\* The state st offers the consensus state of the plan this block began with,
\* should the block of height n be the last one before it.
Readied(st, n) ==
  st[PlanPath] # None /\ armed = st[PlanPath] /\ n = st[PlanPath] - 1 =>
    st[ConsPath(st[PlanPath])] # None

\* What commit will find when nothing disturbs the block: between begin_block
\* and commit the pending state is still the one begin_block has left.
ReadyInv ==
  pc \in {"block", "tx"} /\ ~halted /\ ~disturbed =>
    Readied(upgrade.pending, CurrentHeight(upgrade) + 1)

\* Every step keeps it, and commit passes it on to the version it pushes.
LEMMA ReadyStep ==
  IInv /\ ReadyInv /\ ReadyIfUndisturbed /\ [Next]_vars
    => ReadyInv' /\ ReadyIfUndisturbed'
<1> SUFFICES ASSUME IInv, ReadyInv, ReadyIfUndisturbed, [Next]_vars
             PROVE  ReadyInv' /\ ReadyIfUndisturbed'
  OBVIOUS
<1>1. /\ upgrade \in UpgradeStores /\ PlanBacked(upgrade.pending)
      /\ {0} \in SUBSET Nat
  BY DEF IInv, TypeOK, StateInv, UpgradeStores
<1>2. CASE BeginBlock
  <2>1. /\ BeginUpgrade(upgrade).store = upgrade.store
        /\ BeginUpgrade(upgrade).pending[PlanPath] = upgrade.pending[PlanPath]
    BY <1>1, BeginFacts
  <2>2. /\ halted' = BeginPanics(upgrade) /\ pc' = "block"
        /\ ~halted' => upgrade' = BeginUpgrade(upgrade)
    BY <1>2 DEF BeginBlock
  <2>3. ~halted' => Readied(upgrade.pending, CurrentHeight(upgrade) + 1)'
    <3>1. SUFFICES ASSUME ~halted', upgrade'.pending[PlanPath] # None,
                          CurrentHeight(upgrade') + 1 = upgrade'.pending[PlanPath] - 1
                   PROVE  upgrade'.pending[ConsPath(upgrade'.pending[PlanPath])] # None
      BY DEF Readied
    <3>2. /\ upgrade'.pending[PlanPath] = upgrade.pending[PlanPath]
          /\ CurrentHeight(upgrade') = CurrentHeight(upgrade)
      BY <2>1, <2>2, <3>1 DEF CurrentHeight
    <3>3. BeginUpgrade(upgrade).pending[ConsPath(upgrade.pending[PlanPath])] # None
      BY <1>1, <3>1, <3>2, BeginReadies
    <3> QED BY <2>2, <3>1, <3>2, <3>3
  <2> QED BY <2>2, <2>3 DEF ReadyInv, ReadyIfUndisturbed, AtLastBlock
<1>3. CASE DeliverTx
  BY <1>3 DEF DeliverTx, ReadyInv, Readied, ReadyIfUndisturbed, AtLastBlock
<1>4. ASSUME NEW h \in PlanHeights, Propose(h) PROVE ReadyInv' /\ ReadyIfUndisturbed'
  BY <1>4 DEF Propose, ReadyInv, ReadyIfUndisturbed, AtLastBlock
<1>5. CASE OtherFails \/ ProposalPanics \/ \E h \in PlanHeights : ProposePast(h)
  BY <1>5 DEF OtherFails, ProposalPanics, ProposePast, ReadyInv, ReadyIfUndisturbed, AtLastBlock
<1>6. CASE ResetAll
  BY <1>6 DEF ResetAll, ReadyInv, ReadyIfUndisturbed, AtLastBlock
<1>7. CASE ApplyAll
  <2>1. upgrade'.pending = upgrade.pending /\ upgrade'.store = upgrade.store
    BY <1>1, <1>7, SettleLemma DEF ApplyAll, UpgradeStores
  <2>2. CurrentHeight(upgrade') = CurrentHeight(upgrade)
    BY <2>1 DEF CurrentHeight
  <2>3. /\ pc = "tx" /\ pc' = "block"
        /\ halted' = halted /\ armed' = armed /\ disturbed' = disturbed
    BY <1>7 DEF ApplyAll
  <2> QED BY <2>1, <2>2, <2>3 DEF ReadyInv, Readied, ReadyIfUndisturbed, AtLastBlock
<1>8. CASE Commit
  <2>1. /\ pc = "block" /\ ~halted /\ pc' = "idle"
        /\ armed' = armed /\ disturbed' = disturbed
    BY <1>8 DEF Commit
  <2>2. /\ CurrentHeight(upgrade') = CurrentHeight(upgrade) + 1
        /\ LastState' = upgrade.pending
    <3>1. /\ CurrentHeight(upgrade') = CurrentHeight(upgrade) + 1
          /\ upgrade'.store = VecPush(upgrade.store, upgrade.pending)
      BY <1>1, <1>8, CommitLemma DEF Commit, UpgradeStores
    <3>2. /\ upgrade.store.vec \in Seq(State) /\ upgrade.pending \in State
          /\ upgrade'.store.vec = Append(upgrade.store.vec, upgrade.pending)
      BY <1>1, <3>1 DEF UpgradeStores, StoreOf, VecOf, VecPush
    <3> QED BY <3>1, <3>2 DEF LastState
  <2>3. ~disturbed => Readied(upgrade.pending, CurrentHeight(upgrade) + 1)
    BY <2>1 DEF ReadyInv
  <2> QED BY <2>1, <2>2, <2>3 DEF ReadyInv, Readied, ReadyIfUndisturbed, AtLastBlock
<1>9. CASE UNCHANGED vars
  BY <1>9 DEF vars, ReadyInv, Readied, ReadyIfUndisturbed, AtLastBlock, LastState
<1> QED BY <1>2, <1>3, <1>4, <1>5, <1>6, <1>7, <1>8, <1>9 DEF Next

\* A block that begins with its plan in force, and that no failed transaction
\* and no proposal disturbs, commits the plan's consensus state.
THEOREM UndisturbedBlocksAreReady == Spec => []ReadyIfUndisturbed
<1>1. Init => ReadyInv /\ ReadyIfUndisturbed
  BY DEF Init, ReadyInv, ReadyIfUndisturbed, AtLastBlock, CurrentHeight,
         OriginalLength, NewStore, EmptyVec
<1> QED BY <1>1, InitInv, StepInv, ReadyStep, PTL DEF Spec
=============================================================================
