\* The smallest buffers: each direction is full with two messages.
SPECIFICATION FairSpec
CONSTANTS
  SocketRoom = 2
  MaxImages = 4
INVARIANTS
  TypeOK
  OneReceive
  OneStrayDraw
PROPERTIES
  SendComesBack
  ConsoleComesBack
  EveryImageShown
