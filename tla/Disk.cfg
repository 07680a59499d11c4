SPECIFICATION Spec
CONSTANTS
  Options <- SmallOptions
  Requests <- SmallRequests
  Late <- SmallLate
  MaxStarts = 2
INVARIANT
  WindowIsRespected
PROPERTIES
  TimesAreRight
  EveryRequestIsServed
CHECK_DEADLOCK FALSE
