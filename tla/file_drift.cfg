SPECIFICATION MCSpec
CONSTANTS
  length = 8
  MaxWritten = 40
  Garbage = Garbage
  AtTheEnd = TRUE
  Users = {"file"}
  demodulator = demodulator
  datadecoder = datadecoder
  Threads = {demodulator, datadecoder}
  Unchecked = {}
  MaxRequests = 2
CHECK_DEADLOCK FALSE
INVARIANT StoredAsCounted
