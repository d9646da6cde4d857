CONSTANTS
  Daemons = {"d1", "d2"}
  Pid = {"p1"}
  Kinds = {"game"}
  Gauges <- MCGauges
  Knobs = {"ksm_run"}
  MaxMoves = 2
SPECIFICATION Spec
CHECK_DEADLOCK FALSE
INVARIANT StopIsTrue
