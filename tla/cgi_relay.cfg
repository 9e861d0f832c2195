\* Pipes hold two bytes, less than a body or an output.
SPECIFICATION FairSpec
CONSTANTS
  Byte <- SomeBytes
  Bodies <- SomeBodies
  Outputs <- SomeOutputs
  PipeSize = 2
INVARIANTS
  RelayInv
  Framed
  AnswerFromOutput
PROPERTIES
  Relayed
  Settled
CHECK_DEADLOCK FALSE
