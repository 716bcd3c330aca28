SPECIFICATION FairSpec
CONSTANTS
  block_size = 196608
  sync_feeder_buffer_size_ = 1966080
  first_read_size_ = 1200000
  frame_size = 196608
  null_size = 2656
  Sources = {"file", "radio"}
  DetectedNulls = {30000, 300000}
  Feedbacks <- Imperfect
  MaxIrregular = 1
  MaxSkipped = 2
  UserStops = {"file", "radio"}
INVARIANT StreamInOnePiece
PROPERTIES KeepsSynchronizing EndNoticed
CHECK_DEADLOCK FALSE
