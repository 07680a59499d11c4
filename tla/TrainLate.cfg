SPECIFICATION RSpec
CONSTANTS
  p1 = p1
  p2 = p2
  p3 = p3
  p4 = p4
  Passengers = {p1, p2, p3, p4}
  MaxSeats = 4
PROPERTY LeavesFullOrEmptiesStation
CHECK_DEADLOCK FALSE
