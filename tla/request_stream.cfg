\* Peers that wait for their answers, and peers that send everything at once.
SPECIFICATION Spec
CONSTANT
  Dialogues <- SomeDialogues
INVARIANTS
  AnswersInOrder
  NeverMixed
PROPERTY
  AllAnswered
CHECK_DEADLOCK FALSE
