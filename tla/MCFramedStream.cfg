SPECIFICATION FairSpec
CONSTANTS
  BASE_HEADER_SIZE = 2
  max_message_size = 4
  max_header_size = 1
  send_frame_size = 5
  MaxFrames = 3
  Frames <- MCFrames
INVARIANTS
  WaitsOnlyForBytes
  CompleteAtEnd
  FailureCause
PROPERTIES
  ImplementsChannel
  EventuallyDelivered
