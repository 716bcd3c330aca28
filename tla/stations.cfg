SPECIFICATION FairSpec
CONSTANTS
  Frames <- MCFrames
  Carousel <- MCCarousel
  number_of_fib = 3
  Wished = {2, 255}
  MaxWishes = 1
  Garbage <- MCGarbage
  Configurations <- MCConfigurations
CHECK_DEADLOCK FALSE
INVARIANTS ListRight InStep
PROPERTIES ToldOfThisFrame Converges
