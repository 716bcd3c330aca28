SPECIFICATION MCSpec
CONSTANTS
  xfer_buf_num = 2
  MaxReads = 2
  Faults = {"unplugged"}
  Buses <- MCBuses
  Frequencies <- MCFrequencies
  Rates = {20480, 2500, 5000}
  Corrections <- MCCorrections
  Crystals <- MCCrystals
  MaxCalls = 3
  OffsetSampling = FALSE
  sample_rate = 20480
  carrier_freq = 1783520
  Levels <- MCLevels
  MaxFades = 1
CHECK_DEADLOCK FALSE
INVARIANTS NoUseAfterFree ReportedIsSet
PROPERTIES DeliversInOrder ReaderAndCloserReturn GainReached GainSettles
