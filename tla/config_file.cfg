\* Files of up to 18 tokens that follow the grammar, and files of any length
\* whose blocks nest up to three deep (two entries each).
SPECIFICATION FileSpec
CONSTANTS
  a = a
  b = b
  Word = {"listen", "server_name", "root", "autoindex", "80", "0", "on", a, b}
  ServerKey = {"listen", "server_name", "root"}
  LocationKey = {"root", "autoindex"}
  Port = {"80"}
  Values <- SomeValues
  Path <- Names
  MaxDepth = 6
  MaxServer = 2
  MaxToken = 18
  Interleaved = FALSE
INVARIANTS
  SyntaxInv
  AcceptedClosed
  AsDescribed
SYMMETRY Exchange
CHECK_DEADLOCK FALSE
