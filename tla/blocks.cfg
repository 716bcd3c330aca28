SPECIFICATION MCSpec
CONSTANTS
  length = 8
  MaxWritten = 40
  Garbage = Garbage
  AtTheEnd = FALSE
  Users = {"bulk", "element", "file", "scheduler"}
  demodulator = demodulator
  datadecoder = datadecoder
  Threads = {demodulator, datadecoder}
  Unchecked = {}
  MaxRequests = 2
CHECK_DEADLOCK FALSE
INVARIANTS Coherent RequestsKept
PROPERTIES IsSampleQueue ThreadsAnswer ImplementsJobService
