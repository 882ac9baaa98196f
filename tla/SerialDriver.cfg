\* Two cores, a reader and a thread that computes.  Nobody types, but the
\* device times out.
CONSTANTS
  NCores = 2
  Threads = {reader, worker}
  Readers = {reader}
  Mortals = {reader, worker}
  physical_cores = 1
  size = 1
  MaxBytes = 0
  NONE = NONE
SPECIFICATION FairSerialSpec
CHECK_DEADLOCK FALSE
PROPERTIES
  InterruptsAreCovered
  MachineStops
