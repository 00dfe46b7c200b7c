CONSTANTS
  None = None
  t1 = t1
  t2 = t2
  NumModules = 3
  Touches <- MCTouches
  BuildWrites <- MCBuildWrites
  InitWrites <- MCInitWrites
  BeginWrites <- MCBeginWrites
  Txs <- MCTxs
  MaxMsgs = 2
  MaxHeight = 3
  known = known
  stranger = stranger
  Proving <- MCProving
  Plain <- MCPlain
  Current <- MCCurrent
  Sizes = {0, 1, 2}
  MaxProposal = 4
  Addresses <- MCAddresses
  GenesisAddrs <- MCGenesisAddrs
SPECIFICATION AccountSpec
INVARIANTS ProofChain Lockstep TxAtomic NoTrace QueriesVerify TxProvable ProposalFits SequenceCounts AccountsStay
PROPERTY TxSettles
CHECK_DEADLOCK FALSE
