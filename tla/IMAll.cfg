\* A raw image needs four blocks, and a JPEG eight while its buffer grows.
SPECIFICATION Spec
CONSTANTS
  Addresses <- MCAddresses
  NULL = NULL
ACTION_CONSTRAINT LeastOfTheAlike
INVARIANTS
  HeapRespected
  NothingLeaked
