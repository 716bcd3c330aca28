SPECIFICATION Spec
CONSTANTS
  block_size = 24
  sync_feeder_buffer_size_ = 144
  frame_size = 24
  null_size = 4
  deqpsk_unit_size_ = 12
  units_for_read = 2
  demod_decod_buffer_mul_ = 4
  StartBlocks = {4}
  StartLags = {12}
  Feedbacks <- Imperfect
  MaxIrregular = 2
  Commands = {}
  MaxCommands = 0
  EndlessCommands = {}
  Endless = Endless
  InputBlocks = {Endless}
INVARIANTS NoAssertFails ResumedOnData DecodeWindow
