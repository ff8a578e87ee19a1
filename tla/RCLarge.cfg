\* A receive holds no more than the shortest frame, as with the test image.
SPECIFICATION FairSpec
CONSTANTS
  BufferSize = 17
  FrameLengths = {17, 18, 20}
  PixelWords = {0}
  MaxImages = 3
  MaxHandled = 3
INVARIANTS
  IInv
  InOrderDelivery
  NothingHeldBack
  BytesAccountedFor
  FailuresHaveCause
PROPERTIES
  EveryImageShown
  ImplementsDelivery
