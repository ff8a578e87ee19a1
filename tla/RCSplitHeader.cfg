\* A receive may end inside the length field of a frame.
SPECIFICATION Spec
CONSTANTS
  BufferSize = 8
  FrameLengths = {18, 20}
  PixelWords = {0}
  MaxImages = 3
  MaxHandled = 3
INVARIANTS
  AnyPiecesAccepted
