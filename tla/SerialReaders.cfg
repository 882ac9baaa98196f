\* Two cores, a reader and a thread that computes; reads of one byte.
CONSTANTS
  NCores = 2
  Threads = {reader, worker}
  Readers = {reader}
  Mortals = {}
  physical_cores = 1
  size = 1
  MaxBytes = 1
  NONE = NONE
SPECIFICATION FairSerialSpec
PROPERTY ReadersAreServed
