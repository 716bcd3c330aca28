SPECIFICATION FairSpec
CONSTANTS
  length = 2
  buff_chunk_size_ = 2
  WriteSizes = {1, 2}
  MaxQueued = 1
  MaxWritten = 3
  MaxFlushes = 1
  MaxErrors = 1
INVARIANT SoundRight
PROPERTY AudioGoesOn
CHECK_DEADLOCK FALSE
