\* Frames of different lengths that fit in one receive together.
SPECIFICATION Spec
CONSTANTS
  BufferSize = 40
  FrameLengths = {18, 20}
  PixelWords = {0}
  MaxImages = 2
  MaxHandled = 2
INVARIANTS
  NothingHeldBack
CHECK_DEADLOCK FALSE
