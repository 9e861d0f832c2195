\* Descriptors, copies and exits in three worlds.
SPECIFICATION Spec
CONSTANTS
  c1 = c1
  c2 = c2
  Client <- TwoClients
  MaxFd = 8
  MaxStarts = 3
  Worlds <- SomeWorlds
INVARIANTS
  PipesHeld
  StillNamed
  OwnNumbers
PROPERTIES
  EndsSeen
  PipesClosed
CHECK_DEADLOCK FALSE
