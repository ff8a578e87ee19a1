\* Images of every height, sampling and number of passes, given one to three
\* lines a call, into memory and into a destination that suspends anywhere.
SPECIFICATION FairSpec
CONSTANTS
  DctSize = 2
  Images <- MCImages
  Columns = 2
  MaxLines = 3
  Blank = Blank
  Dummy = Dummy
INVARIANTS
  TypeOK
  RowsAccountedFor
  McusRight
  NothingLeftBehind
PROPERTIES
  LinesTaken
  Finishes
