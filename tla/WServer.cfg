SPECIFICATION Spec
CONSTANTS
  w1 = w1
  w2 = w2
  w3 = w3
  None = None
  MaxConnections = 4
  Workers = {w1, w2}
  Buffers = {0, 2}
  Sizes = {1, 2}
INVARIANTS
  TypeOK
  EveryConnectionOnce
  WokenWorkersCoverQueue
  QueueInOrder
PROPERTIES
  BrokenOnlyBySecondUnlock
  EveryoneIsServed
CHECK_DEADLOCK FALSE
