\* One port of two servers, any number of requests one after another.
SPECIFICATION Spec
CONSTANTS
  Char <- SomeChar
  Name <- SomeName
  Ports <- SomePorts
  Requests <- SomeRequests
INVARIANTS
  RoutedByHost
  LongestPrefix
  FileInRoot
  OnlyAllowed
CHECK_DEADLOCK FALSE
