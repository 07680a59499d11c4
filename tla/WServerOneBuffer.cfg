SPECIFICATION Spec
CONSTANTS
  w1 = w1
  w2 = w2
  w3 = w3
  None = None
  MaxConnections = 4
  Workers = {w1, w2}
  Buffers = {1}
  Sizes = {1, 2}
PROPERTY MainWakesUp
CHECK_DEADLOCK FALSE
