CONSTANTS
  Daemons = {"d1", "d2"}
  Pid = {"p1", "p2"}
  Kinds = {"inference", "game"}
  Gauges <- MCGauges
  Knobs = {"ksm_run", "max_pool_percent"}
  MaxMoves = 2
SPECIFICATION Spec
CHECK_DEADLOCK FALSE
INVARIANTS TypeOK
PROPERTIES TicksConverge KnobsConverge OomScoresConverge SignalEnds
