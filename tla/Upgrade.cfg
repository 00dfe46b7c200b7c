CONSTANTS
  None = None
  MaxPlan = 4
  MaxHeight = 4
  MaxProposals = 3
SPECIFICATION Spec
INVARIANTS HaltsOnlyAtZero CommittedPlansBacked NeverEarly IdsFresh ReadyIfUndisturbed
CHECK_DEADLOCK FALSE
