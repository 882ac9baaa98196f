\* Init and a child, three FCBs, three descriptors each, two sleeping calls.
CONSTANTS
  Procs = {init, p1}
  InitProc = init
  Threads = {t1, t2}
  MAX_FILES = 3
  MAX_FILEID = 3
  NULL = NULL
SYMMETRY Symmetry
SPECIFICATION Spec
INVARIANTS
  FcbsExact
  StreamsExact
