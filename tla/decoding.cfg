SPECIFICATION MCSpec
CONSTANTS
  number_of_cif = 4
  Ahead = 2
  MaxFrames = 12
  Zero = Zero
  superframe_capacity_ = 16
  MaxCifs = 48
  MaxNoisy = 2
  FrameBlocks <- MCFrameBlocks
  FieldSize = 16
  PPOLY = 3
  NPAR = 4
  cell_size = 7
  no_cells = 2
  Jobs <- MCJobs
CHECK_DEADLOCK FALSE
INVARIANTS WholeCifs BufferHolds NoSuperframeMissed BlockDecoded NoErrorGetsThrough
PROPERTY WrittenOnce
