------------------------------- MODULE Upgrade -------------------------------
(***************************************************************************)
(* Chain upgrades: the upgrade module (modules/src/upgrade/impls.rs) with  *)
(* its plan, upgraded client states and upgraded consensus states, driven  *)
(* by the governance module (modules/src/gov/impls.rs), which executes an  *)
(* upgrade proposal as soon as it is submitted, inside the block cycle of  *)
(* the application.  Governance works on a clone of the upgrade module     *)
(* that shares its store, and counts its proposals in memory.              *)
(***************************************************************************)
EXTENDS StoreOps

CONSTANTS
  MaxPlan,       \* bound: plan heights
  MaxHeight,     \* bound: committed blocks
  MaxProposals   \* bound: executed proposals

ASSUME UpgradeAssumption ==
  /\ MaxPlan \in Nat /\ MaxHeight \in Nat /\ MaxProposals \in Nat
  /\ None \notin Nat

VARIABLES
  upgrade,    \* the store of the upgrade module
  gov,        \* the store of the governance module: the last proposal's id
  counter,    \* proposal_counter
  pc,         \* "idle", "block", "tx", "failed", "panicked"
  halted,     \* begin_block has panicked
  armed,      \* the plan begin_block of this block has found, or None
  disturbed   \* a transaction of this block has failed or made a proposal

vars == <<upgrade, gov, counter, pc, halted, armed, disturbed>>

PlanHeights == 0 .. MaxPlan

PlanPath == <<"upgradePlan", 0>>
ClientPath(h) == <<"upgradedClient", h>>
ConsPath(h) == <<"upgradedConsState", h>>
ProposalPath == <<"proposal", 0>>

Paths == {PlanPath} \cup {ClientPath(h) : h \in PlanHeights}
                    \cup {ConsPath(h) : h \in PlanHeights}

State == [Paths -> Nat \cup {None}]
GovState == [{ProposalPath} -> Nat \cup {None}]

ASSUME StateAssumption == None \notin State

-----------------------------------------------------------------------------
(* The upgrade module's methods on its store.  A client state and a        *)
(* consensus state are abstracted to the fact that they are there.         *)

UpgradePlan(s) == StoreGet(s, Pending, PlanPath)

ClearUpgradePlan(s, h) ==
  StoreDelete(StoreDelete(StoreDelete(s, ClientPath(h)), ConsPath(h)), PlanPath)

\* schedule_upgrade clears under the height of the new plan, not of the old.
ScheduleUpgrade(s, h) ==
  StoreSet(IF UpgradePlan(s) # None THEN ClearUpgradePlan(s, h) ELSE s,
           PlanPath, h)

ScheduleAllowed(s, h) == h >= CurrentHeight(s)

\* Mutant: the client state lands where the consensus state belongs.
StoreClientStateAtConsPath(s, h) == StoreSet(s, ConsPath(h), 1)
StoreUpgradedClientState(s, h) == StoreSet(s, ClientPath(h), 1)
StoreUpgradedConsensusState(s, h) == StoreSet(s, ConsPath(h), 1)

\* External: execute_upgrade_client_proposal of the ibc crate clears a plan
\* that exists, schedules the new one and stores its upgraded client state.
ClearedFor(s, h) == IF UpgradePlan(s) # None THEN ClearUpgradePlan(s, h) ELSE s
ExecuteProposal(s, h) ==
  StoreUpgradedClientState(ScheduleUpgrade(ClearedFor(s, h), h), h)

HostHeight(s) == CurrentHeight(s) + 1

\* Mutant: the client state is looked up where the consensus state will be.
BeginPanicsWrongPath(s) ==
  /\ UpgradePlan(s) # None
  /\ \/ StoreGet(s, Pending, ConsPath(UpgradePlan(s))) = None
     \/ UpgradePlan(s) = 0

\* begin_block unwraps the upgraded client state of the plan it finds, and the
\* height before it.
BeginPanics(s) ==
  /\ UpgradePlan(s) # None
  /\ \/ StoreGet(s, Pending, ClientPath(UpgradePlan(s))) = None
     \/ UpgradePlan(s) = 0

\* Mutants: in every block ahead of the plan, and one block late.
BeginUpgradeEarly(s) ==
  IF UpgradePlan(s) # None /\ HostHeight(s) <= UpgradePlan(s) - 1
  THEN StoreSet(s, ConsPath(UpgradePlan(s)), 1)
  ELSE s
BeginUpgradeLate(s) ==
  IF UpgradePlan(s) # None /\ HostHeight(s) = UpgradePlan(s)
  THEN StoreSet(s, ConsPath(UpgradePlan(s)), 1)
  ELSE s

\* begin_block of the last block before the plan stores the consensus state.
BeginUpgrade(s) ==
  IF UpgradePlan(s) # None /\ HostHeight(s) = UpgradePlan(s) - 1
  THEN StoreUpgradedConsensusState(s, UpgradePlan(s))
  ELSE s

-----------------------------------------------------------------------------
Init ==
  /\ upgrade = NewStore([p \in Paths |-> None])
  /\ gov = NewStore([p \in {ProposalPath} |-> None])
  /\ counter = 0
  /\ pc = "idle"
  /\ halted = FALSE
  /\ armed = None
  /\ disturbed = FALSE

BeginBlock ==
  /\ pc = "idle"
  /\ ~halted
  /\ CurrentHeight(upgrade) < MaxHeight
  /\ halted' = BeginPanics(upgrade)
  /\ upgrade' = IF BeginPanics(upgrade) THEN upgrade ELSE BeginUpgrade(upgrade)
  /\ armed' = UpgradePlan(upgrade)
  /\ disturbed' = FALSE
  /\ pc' = "block"
  /\ UNCHANGED <<gov, counter>>

DeliverTx ==
  /\ pc = "block"
  /\ ~halted
  /\ pc' = "tx"
  /\ UNCHANGED <<upgrade, gov, counter, halted, armed, disturbed>>

\* Mutant: the counter is not raised.
ProposeUncounted(h) ==
  /\ pc = "tx"
  /\ ScheduleAllowed(upgrade, h)
  /\ upgrade' = ExecuteProposal(upgrade, h)
  /\ gov' = StoreSet(gov, ProposalPath, counter)
  /\ disturbed' = TRUE
  /\ UNCHANGED <<counter, pc, halted, armed>>

\* Governance::deliver of an upgrade proposal that is accepted.
Propose(h) ==
  /\ pc = "tx"
  /\ counter < MaxProposals
  /\ ScheduleAllowed(upgrade, h)
  /\ upgrade' = ExecuteProposal(upgrade, h)
  /\ gov' = StoreSet(gov, ProposalPath, counter)
  /\ counter' = counter + 1
  /\ disturbed' = TRUE
  /\ UNCHANGED <<pc, halted, armed>>

\* Governance::deliver of a proposal for a height in the past: the plan in
\* force has been cleared by the time schedule_upgrade refuses.
ProposePast(h) ==
  /\ pc = "tx"
  /\ ~ScheduleAllowed(upgrade, h)
  /\ upgrade' = ClearedFor(upgrade, h)
  /\ pc' = "failed"
  /\ UNCHANGED <<gov, counter, halted, armed, disturbed>>

\* Governance::deliver unwraps the decoding of the proposal.  The modules are
\* locked by deliver_tx, which neither applies nor resets any more; nothing
\* gets past the poisoned lock.
ProposalPanics ==
  /\ pc = "tx"
  /\ pc' = "panicked"
  /\ UNCHANGED <<upgrade, gov, counter, halted, armed, disturbed>>

\* Another message of the transaction fails.
OtherFails ==
  /\ pc = "tx"
  /\ pc' = "failed"
  /\ UNCHANGED <<upgrade, gov, counter, halted, armed, disturbed>>

\* The error path of deliver_tx; the counter is not part of any store.
ResetAll ==
  /\ pc = "failed"
  /\ upgrade' = StoreReset(upgrade)
  /\ gov' = StoreReset(gov)
  /\ disturbed' = TRUE
  /\ pc' = "block"
  /\ UNCHANGED <<counter, halted, armed>>

ApplyAll ==
  /\ pc = "tx"
  /\ upgrade' = StoreApply(upgrade)
  /\ gov' = StoreApply(gov)
  /\ pc' = "block"
  /\ UNCHANGED <<counter, halted, armed, disturbed>>

Commit ==
  /\ pc = "block"
  /\ ~halted
  /\ upgrade' = StoreCommit(upgrade)
  /\ gov' = StoreCommit(gov)
  /\ pc' = "idle"
  /\ UNCHANGED <<counter, halted, armed, disturbed>>

Next ==
  \/ BeginBlock
  \/ DeliverTx
  \/ \E h \in PlanHeights : Propose(h) \/ ProposePast(h)
  \/ ProposalPanics
  \/ OtherFails
  \/ ResetAll
  \/ ApplyAll
  \/ Commit

Spec == Init /\ [][Next]_vars

-----------------------------------------------------------------------------
\* Type invariant.
TypeOK ==
  /\ upgrade \in StoreOf(State, {0})
  /\ gov \in StoreOf(GovState, {0})
  /\ counter \in Nat
  /\ pc \in {"idle", "block", "tx", "failed", "panicked"}
  /\ halted \in BOOLEAN
  /\ armed \in Nat \cup {None}
  /\ disturbed \in BOOLEAN

\* begin_block never fails on the unwrap of the upgraded client state, however
\* plans were replaced, refused and rolled back.  What makes it panic is a
\* plan for height 0, and only in the second block: schedule_upgrade takes such
\* a plan before the first commit and never again.
HaltsOnlyAtZero == halted => armed = 0 /\ CurrentHeight(upgrade) = 1

\* A light client that follows the plan of a committed block finds the client
\* state it needs in the same block.
PlanBacked(state) ==
  state[PlanPath] # None =>
    state[PlanPath] \in PlanHeights /\ state[ClientPath(state[PlanPath])] # None

CommittedPlansBacked ==
  \A i \in 1 .. Len(upgrade.store.vec) : PlanBacked(upgrade.store.vec[i])

\* No consensus state is offered for an upgrade before the last block ahead
\* of it: a committed one for plan height h is at height h - 1 or above.
NeverEarly ==
  \A i \in 1 .. Len(upgrade.store.vec) : \A h \in PlanHeights :
    upgrade.store.vec[i][ConsPath(h)] # None => i >= h - 1

\* Proposal ids are never used twice: the stored id is below the counter,
\* also when the transactions that raised the counter were rolled back.
IdsFresh ==
  /\ gov.pending[ProposalPath] # None => gov.pending[ProposalPath] < counter
  /\ gov.staged[ProposalPath] # None => gov.staged[ProposalPath] < counter
  /\ \A i \in 1 .. Len(gov.store.vec) :
       gov.store.vec[i][ProposalPath] # None => gov.store.vec[i][ProposalPath] < counter

LastState == upgrade.store.vec[Len(upgrade.store.vec)]

\* The version just committed is the last one before its plan's height.
AtLastBlock ==
  /\ pc = "idle"
  /\ CurrentHeight(upgrade) > 0
  /\ LastState[PlanPath] # None
  /\ CurrentHeight(upgrade) = LastState[PlanPath] - 1

\* "Once we are at the last block this chain will commit, set the upgraded
\* consensus state" (upgrade/impls.rs): if the plan was there when that block
\* began, and no transaction of it failed or made a proposal, the block commits
\* the consensus state.  One that fails or makes a proposal takes it away.
ReadyIfUndisturbed ==
  AtLastBlock /\ armed = LastState[PlanPath] /\ ~disturbed =>
    LastState[ConsPath(LastState[PlanPath])] # None
=============================================================================
