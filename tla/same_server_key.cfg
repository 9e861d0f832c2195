\* Directives may follow a location.
SPECIFICATION FileSpec
CONSTANTS
  a = a
  b = b
  Word = {"listen", "server_name", "root", "autoindex", "80", "0", "on", a, b}
  ServerKey = {"listen", "server_name", "root"}
  LocationKey = {"root", "autoindex"}
  Port = {"80"}
  Values <- SomeValues
  Path <- Names
  MaxDepth = 4
  MaxServer = 1
  MaxToken = 16
  Interleaved = TRUE
INVARIANT ServerKeysOnce
SYMMETRY Exchange
CHECK_DEADLOCK FALSE
