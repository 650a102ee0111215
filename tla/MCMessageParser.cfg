SPECIFICATION Spec
CONSTANTS
  BASE_HEADER_SIZE = 2
  max_message_size = 6
  max_header_size = 1
  MaxMessages = 4
  MaxClears = 1
  Messages <- MCMessages
INVARIANTS
  LossIsTerminal
  ReturnedInOrder
