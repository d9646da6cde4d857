--------------------------- MODULE MCMemoptDaemon ---------------------------
EXTENDS MemoptDaemon

\* Low use, high use with pressure, and the middle: one gauge for each way the
\* pressure and the idle tests can go.
MCGauges ==
  { [used |-> 30, full |-> 0, some |-> 0, hiSwap |-> FALSE, loSwap |-> TRUE, loRatio |-> TRUE],
    [used |-> 75, full |-> 0, some |-> 6, hiSwap |-> TRUE, loSwap |-> FALSE, loRatio |-> TRUE] }
=============================================================================
