\* mIsListening is not initialised: what StartListen may find.
SPECIFICATION FairSpec
CONSTANTS
  c1 = c1
  c2 = c2
  Clients <- MCClients
  Slots <- MCSlots
  Backlog = 1
  NoClient = NoClient
PROPERTIES
  RefusedOnlyWhenListening
