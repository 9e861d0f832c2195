\* Every configuration of the directory; two requests.
SPECIFICATION Spec
CONSTANTS
  File <- TwoFiles
  Length <- Lengths
  PageLength = 1
  MaxRequests = 2
INVARIANT
  AnswersWhole
CHECK_DEADLOCK FALSE
