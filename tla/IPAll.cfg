\* Widths with and without filled-up rows, one row and several, all depths.
SPECIFICATION Spec
CONSTANTS
  Widths = {3, 4, 8}
  Heights = {1, 2, 3}
  Depths = {4, 8, 24, 32}
  Palettes = {4, 8}
  MockSide = 2
  MaxQueued = 2
  NoFile = NoFile
  NoPicture = NoPicture
INVARIANTS
  TypeOK
  RawShowsBytesRead
  ControlsDiffer
  GrayNeverFails
