\* One connection with every request; CGI programs read all their input.
SPECIFICATION CgiSpec
CONSTANTS
  c1 = c1
  c2 = c2
  Client = {c1}
  MaxEvent = 3
  CgiFaults <- ReadsAll
  Asks <- Everything
PROPERTY
  AnswerDue
CHECK_DEADLOCK FALSE
