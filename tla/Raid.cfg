SPECIFICATION Spec
CONSTANTS
  Arrays <- SmallArrays
  Sizes = {0, 1, 3, 7}
  RandRange = 15
  numTracks = 3
  blocksPerTrack = 3
  numRequests = 2
INVARIANTS
  PlacesAreDistinct
  TouchesExactlyWhatWasAsked
  ParityCanBeComputed
  EndsOnlyBeyondCapacity
CHECK_DEADLOCK FALSE
