\* Two connections that share batches; CGI programs may do anything.
SPECIFICATION Spec
CONSTANTS
  c1 = c1
  c2 = c2
  Client = {c1, c2}
  MaxEvent = 2
  CgiFaults <- AnyFault
  Asks <- EverythingBesidePage
INVARIANTS
  IInv
  OneDirection
  BatchFollowsLife
  RoutedOnce
  AnswerReady
  FailureNeedsCgi
  WaitNeverBlocks
  NoChildBetweenRequests
CHECK_DEADLOCK FALSE
