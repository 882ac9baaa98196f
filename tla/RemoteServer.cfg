\* Three connections and the records that they log, and one more.
CONSTANTS
  Clients = {c1, c2, c3}
  SIZE_MAX = 7
  MaxLog = 7
SPECIFICATION RsrvSpec
SYMMETRY Symmetry
CHECK_DEADLOCK FALSE
INVARIANTS
  LeavesNobodyBehind
  ConsoleIsWoken
