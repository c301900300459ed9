SPECIFICATION Spec
CONSTANTS
  w1 = w1
  w2 = w2
  Writer <- MCWriter
  MaxCalls = 2
  MaxPosts = 2
INVARIANTS
  TypeOK
  AnswerIsTrue
  NoUseAfterReturn
  NoTearDownUnderWrite
  NoParkOnQueuedWrite
PROPERTIES
  EveryCallReturns
  KeepsOrderedWrites
