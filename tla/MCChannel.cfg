\* Headers of three bytes; frames of four to six with none, one or two descriptors, and
\* one whose message is longer than the receiver takes; a buffer smaller than most frames.
CONSTANTS
  x = x y = y
  Descriptors = {x, y}
  Frames <- MCFrames
  HEADER_LEN = 3
  MAX_JSON_LEN = 1
  MAX_PAYLOAD_LEN = 2
  Capacity = 4
  MaxFrames = 3
SPECIFICATION FairSpec
CHECK_DEADLOCK FALSE
PROPERTIES ImplementsQueue FramesArrive
