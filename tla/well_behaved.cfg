\* Two connections with CGI programs that read, answer and exit with 0.
SPECIFICATION TimedSpec
CONSTANTS
  c1 = c1
  c2 = c2
  Client = {c1, c2}
  MaxEvent = 2
  CgiFaults <- NoFault
  Asks <- PostBesidePost
INVARIANTS
  NoSigPipe
  NoJunk
  KnotesFollowRequest
PROPERTIES
  KeepsPromise
  SilentPeerClosed
CHECK_DEADLOCK FALSE
