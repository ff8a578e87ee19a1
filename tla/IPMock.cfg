\* Gray files with a palette, as the one the server reads.
SPECIFICATION Spec
CONSTANTS
  Widths = {4}
  Heights = {2}
  Depths = {8}
  Palettes = {8}
  MockSide = 2
  MaxQueued = 1
  NoFile = NoFile
  NoPicture = NoPicture
INVARIANT MocksGrabbing
