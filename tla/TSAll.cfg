\* Two clients come and go in any order, one of which may find the queue full.
SPECIFICATION FairSpec
CONSTANTS
  c1 = c1
  c2 = c2
  Clients <- MCClients
  Slots <- MCSlots
  Backlog = 0
  NoClient = NoClient
INVARIANTS
  TypeOK
  OneConnectionOpen
  OneLateEvent
  ListenerOwnsConnection
  OpenConnectionUsed
PROPERTIES
  ImagesGoToCurrentClient
  SigpipeAfterWarning
  ServesOneAtATime
  WaitingClientServed
  LostConnectionClosed
