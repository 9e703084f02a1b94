CONSTANTS
  NIL = NIL
  Keys = {0, 2, 4}
  Lens = {2}
  HALF = 2
  WORD = 2
  MaxBlocks = 14
  MaxVersion = 2
  MaxNews = 1
  MaxOps = 2
  SERVER_MAX_VERSION_NUM = 2
  CLIENT_MAX_VERSION_NUM = 1
  RESET_MIN_LATER_VERSION_NUM = 2
  MaxLag = 1
SPECIFICATION Spec
INVARIANTS
  VersionsMeanIt
  BlocksCounted
  PacketsApply
CHECK_DEADLOCK FALSE
