CONSTANTS
  Daemons = {"d1"}
  Pid = {"p1", "p2"}
  Kinds = {"inference", "game"}
  Gauges <- MCGauges
  Knobs = {"ksm_run"}
  MaxMoves = 2
SPECIFICATION Spec
CHECK_DEADLOCK FALSE
PROPERTY KsmOffWhileGaming
