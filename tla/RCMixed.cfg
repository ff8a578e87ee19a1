SPECIFICATION Spec
CONSTANTS
  BufferSize = 24
  FrameLengths = {17, 19}
  PixelWords <- MCPixelWords
  MaxImages = 3
  MaxHandled = 4
INVARIANTS
  ImagesAreWhole
  NeverTwice
CHECK_DEADLOCK FALSE
