\* Every line of four kinds of characters, up to seven of them.
SPECIFICATION LineSpec
CONSTANTS
  Character <- SomeCharacters
  Lines <- ShortLines
INVARIANTS
  FieldLine
  RequestLine
PROPERTY
  LineDone
CHECK_DEADLOCK FALSE
