SPECIFICATION Spec
CONSTANTS
  Pages <- SomePages
  Sizes = {1, 2, 4}
  Overlaps = {0, 1, 3}
INVARIANTS
  NoWordLost
  ChunksAreSound
CHECK_DEADLOCK FALSE
