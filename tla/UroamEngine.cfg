SPECIFICATION Spec
CONSTANTS
  Machines <- MCMachines
  AiKsm = TRUE
  BalancedKsm = FALSE
  MaxMoves = 2
PROPERTIES
  PassesConverge
  FollowsMachine
CHECK_DEADLOCK FALSE
