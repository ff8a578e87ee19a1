\* Three destinations, with and without restart markers.
SPECIFICATION FairSpec
CONSTANTS
  ByteBits = 3
  Codes <- MCCodes
  MaxCodes = 2
  MaxMcus = 3
  Setups <- MCSetups
  RstMarkers = 2
  Eoi = 4
  Blank = Blank
INVARIANTS
  TypeOK
  StreamRight
PROPERTIES
  SuspendedMcuWritten
