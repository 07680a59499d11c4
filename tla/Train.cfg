SPECIFICATION RSpec
CONSTANTS
  p1 = p1
  p2 = p2
  p3 = p3
  p4 = p4
  Passengers = {p1, p2, p3, p4}
  MaxSeats = 4
INVARIANTS
  TypeOK
  OneCalledAtATime
  CountersAgree
  SeatsNotOversold
  NobodyStandsWithoutTrain
  EarlyReportOnlyForLatePassengers
PROPERTIES
  MainNeverHangs
CHECK_DEADLOCK FALSE
