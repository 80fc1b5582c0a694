SPECIFICATION Spec
CONSTANTS
  Limit = {48, 56, 64, 80}
  HeaderSize = 16
  HashSize = 16
  InfoSize = 64
INVARIANTS
  FilesReadBack
  NodesFit
  ShallowTrees
CHECK_DEADLOCK FALSE
