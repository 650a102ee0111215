SPECIFICATION FairSpec
CONSTANTS
  Transports = {"tcp", "ipc", "ws"}
  l1 = l1
  l2 = l2
  l3 = l3
  c1 = c1
  c2 = c2
  c3 = c3
  Listens <- MCListens
  Clients <- MCClients
  Mute <- MCMute
  Foreign <- MCForeign
  url <- MCurl
  Backlog = 2
  Nobody = Nobody
  Stale = Stale
CHECK_DEADLOCK FALSE
INVARIANTS
  TypeOK
  CutOffOnlyByOthers
  BindFailsOnlyInRace
  ConnectionsConserved
PROPERTIES
  StayingIsAccepted
  QueuedIsServed
