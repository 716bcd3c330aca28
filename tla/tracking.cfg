SPECIFICATION MCSpec
CONSTANTS
  Ppm = 200
  Errors <- MCErrors
  MaxFaults = 1
  Outlier = 3000
  Lag = 1
  Begins <- MCBegins
  null_size = 8
  frame_size = 32
  null_err = 2
  Clock = 1
  Loud <- MCLoud
  Quiet <- MCQuiet
  MaxUpsets = 2
  Stations <- MCStations
INVARIANTS CarrierFollowed ModeFound TransformedOnce CellsRight NextNullIntact
PROPERTIES Settles NullFollowed
