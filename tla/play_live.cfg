SPECIFICATION FairSpec
CONSTANTS
  block_size = 24
  sync_feeder_buffer_size_ = 144
  frame_size = 24
  null_size = 4
  deqpsk_unit_size_ = 12
  units_for_read = 1
  demod_decod_buffer_mul_ = 4
  StartBlocks = {4}
  StartLags = {12}
  Feedbacks <- ExactOnly
  MaxIrregular = 0
  Commands = {"stop", "station", "conv_alg"}
  MaxCommands = 2
  EndlessCommands = {"stop"}
  Endless = Endless
  InputBlocks = {3, Endless}
CHECK_DEADLOCK FALSE
PROPERTIES AudioUntilStop StopHonoured
