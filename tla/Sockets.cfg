\* Three threads, three descriptors, one port.
CONSTANTS
  Threads = {t1, t2, t3}
  Fids = {f1, f2, f3}
  SCBs = {s1, s2, s3}
  Requests = {r1, r2}
  MAX_PORT = 1
  NULL = NULL
SYMMETRY Symmetry
SPECIFICATION Spec
INVARIANTS
  PortsExact
  AcceptorsAreWoken
PROPERTIES
  RequestsAreKept
