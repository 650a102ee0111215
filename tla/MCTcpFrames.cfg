SPECIFICATION FairSpec
CONSTANTS
  PREFIX = 2
  Lengths = {0, 1, 2, 3}
  DEFAULT_MAX_MESSAGE_SIZE = 2
  read_limit = 1
  read_timeout = TRUE
  write_timeout = TRUE
  MaxWrites = 2
CHECK_DEADLOCK FALSE
INVARIANTS
  FramesIntact
PROPERTIES
  FramesArrive
