\* Streams cut into pieces in every way; the longest bodies are over the limit.
SPECIFICATION Spec
CONSTANTS
  Hex = 2
  Byte <- SomeBytes
  Bodies <- SomeBodies
  Endings <- SomeEndings
  MaxBody = 5
INVARIANTS
  Decoded
  EndKnown
CHECK_DEADLOCK FALSE
