CONSTANTS
  MaxPid = 3
  MaxTracked = 2
  MaxEvents = 2
  Comm = {"llama api", "steam"}
  AiComm = {"llama api"}
  InferComm = {"llama api"}
  GameComm = {"steam"}
SPECIFICATION FairSpec
INVARIANTS TableConsistent QuietAfterExit
PROPERTIES ImplementsRegistry ReachableTracked ExitReturns
CHECK_DEADLOCK FALSE
