\* Five philosophers who eat twice.
CONSTANTS
  N = 5
  bites = 2
SPECIFICATION FairSpec
CHECK_DEADLOCK FALSE
INVARIANT TableExact
PROPERTY SymposiumEnds
